---- MODULE Spec2Model ----
(***************************************************************************)
(* Model of the audit orchestration engine of level2-reviewtron:           *)
(* the POST /audit/url route, analyzeURL and the checks it sequences.      *)
(***************************************************************************)
EXTENDS Integers, Sequences, FiniteSets, TLC

(***************************************************************************)
(* Strings are sequences of one-character strings, so that includes(),     *)
(* toLowerCase(), split('.').pop() and URL parsing are computed.           *)
(***************************************************************************)
UpperChars == <<"A","B","C","D","E","F","G","H","I","J","K","L","M","N","O","P","Q","R","S","T","U","V","W","X","Y","Z">>

LowerChars == <<"a","b","c","d","e","f","g","h","i","j","k","l","m","n","o","p","q","r","s","t","u","v","w","x","y","z">>

LowerChar(c) ==
    IF \E i \in 1..26 : UpperChars[i] = c
    THEN LowerChars[CHOOSE i \in 1..26 : UpperChars[i] = c]
    ELSE c

IsLetter(c) == \E i \in 1..26 : UpperChars[i] = c \/ LowerChars[i] = c

toLowerCase(s) == [i \in 1..Len(s) |-> LowerChar(s[i])]

includes(s, w) == \E i \in 0..(Len(s) - Len(w)) : SubSeq(s, i + 1, i + Len(w)) = w

startsWith(s, p) == Len(s) >= Len(p) /\ SubSeq(s, 1, Len(p)) = p

\* First index >= from whose character is in stops, Len(s)+1 when there is none.
FirstIndexIn(s, stops, from) ==
    IF \E i \in from..Len(s) : s[i] \in stops
    THEN CHOOSE i \in from..Len(s) : s[i] \in stops /\ \A j \in from..(i - 1) : s[j] \notin stops
    ELSE Len(s) + 1

\* hostname.split('.').pop(): the part after the last dot (all of it when there is no dot).
LastLabel(hostname) ==
    IF \E i \in 1..Len(hostname) : hostname[i] = "."
    THEN LET d == CHOOSE i \in 1..Len(hostname) : hostname[i] = "." /\ \A j \in (i + 1)..Len(hostname) : hostname[j] # "."
         IN SubSeq(hostname, d + 1, Len(hostname))
    ELSE hostname

SchemeSep == <<":", "/", "/">>

InvalidURL == [ok |-> FALSE, protocol |-> <<>>, hostname |-> <<>>, pathname |-> <<>>]

\* The authority and path of a URL text that starts right after "//".
ParseAuthority(protocol, rest) ==
    LET hostEnd == FirstIndexIn(rest, {"/", "?", "#"}, 1)
        authority == SubSeq(rest, 1, hostEnd - 1)
        portAt == FirstIndexIn(authority, {":"}, 1)
        host == SubSeq(authority, 1, portAt - 1)
        pathEnd == FirstIndexIn(rest, {"?", "#"}, hostEnd)
        path == SubSeq(rest, hostEnd, pathEnd - 1)
    IN IF host = <<>> \/ \E i \in 1..Len(host) : host[i] = " "
       THEN InvalidURL
       ELSE [ok |-> TRUE, protocol |-> protocol, hostname |-> toLowerCase(host),
             pathname |-> IF path = <<>> THEN <<"/">> ELSE path]

\* new URL(text): throws (ok = FALSE) unless text is scheme://host...
ParseURL(text) ==
    LET colon == FirstIndexIn(text, {":"}, 1)
    IN IF colon > 1 /\ colon + 2 <= Len(text)
          /\ SubSeq(text, colon, colon + 2) = SchemeSep
          /\ \A i \in 1..(colon - 1) : IsLetter(text[i])
       THEN ParseAuthority(toLowerCase(SubSeq(text, 1, colon - 1)),
                           SubSeq(text, colon + 3, Len(text)))
       ELSE InvalidURL

\* new URL(location, base) for a location that starts with "/".
ResolveURL(location, base) ==
    LET b == ParseURL(base)
    IN IF ~b.ok THEN InvalidURL
       ELSE IF startsWith(location, <<"/", "/">>)
            THEN ParseAuthority(b.protocol, SubSeq(location, 3, Len(location)))
            ELSE [ok |-> TRUE, protocol |-> b.protocol, hostname |-> b.hostname,
                  pathname |-> SubSeq(location, 1, FirstIndexIn(location, {"?", "#"}, 1) - 1)]

(***************************************************************************)
(* utils/bannedWords: the categories in declaration order.                 *)
(***************************************************************************)
adult ==
    << <<"p", "o", "r", "n">>,
       <<"x", "x", "x">>,
       <<"a", "d", "u", "l", "t">>,
       <<"s", "e", "x">>,
       <<"n", "u", "d", "e">>,
       <<"n", "a", "k", "e", "d">>,
       <<"p", "u", "s", "s", "y">>,
       <<"d", "i", "c", "k">>,
       <<"c", "o", "c", "k">>,
       <<"t", "i", "t", "s">>,
       <<"b", "o", "o", "b", "s">>,
       <<"a", "s", "s">>,
       <<"a", "n", "a", "l">>,
       <<"m", "i", "l", "f">>,
       <<"m", "a", "t", "u", "r", "e">> >>

drugs ==
    << <<"c", "a", "n", "n", "a", "b", "i", "s">>,
       <<"m", "a", "r", "i", "j", "u", "a", "n", "a">>,
       <<"w", "e", "e", "d">>,
       <<"c", "o", "c", "a", "i", "n", "e">>,
       <<"h", "e", "r", "o", "i", "n">>,
       <<"m", "e", "t", "h">>,
       <<"m", "d", "m", "a">>,
       <<"e", "c", "s", "t", "a", "s", "y">>,
       <<"l", "s", "d">>,
       <<"s", "h", "r", "o", "o", "m", "s">>,
       <<"p", "s", "y", "c", "h", "e", "d", "e", "l", "i", "c", "s">>,
       <<"d", "r", "u", "g", "s">> >>

gambling ==
    << <<"c", "a", "s", "i", "n", "o">>,
       <<"p", "o", "k", "e", "r">>,
       <<"b", "e", "t">>,
       <<"b", "e", "t", "t", "i", "n", "g">>,
       <<"s", "l", "o", "t", "s">>,
       <<"g", "a", "m", "b", "l", "i", "n", "g">>,
       <<"l", "o", "t", "t", "e", "r", "y">>,
       <<"r", "o", "u", "l", "e", "t", "t", "e">>,
       <<"b", "l", "a", "c", "k", "j", "a", "c", "k">> >>

weapons ==
    << <<"g", "u", "n", "s">>,
       <<"f", "i", "r", "e", "a", "r", "m", "s">>,
       <<"w", "e", "a", "p", "o", "n", "s">>,
       <<"a", "m", "m", "o">>,
       <<"a", "m", "m", "u", "n", "i", "t", "i", "o", "n">>,
       <<"r", "i", "f", "l", "e">>,
       <<"p", "i", "s", "t", "o", "l">>,
       <<"s", "h", "o", "t", "g", "u", "n">> >>

punycode ==
    << <<"x", "n", "-", "-">> >>

malicious ==
    << <<"p", "h", "i", "s", "h", "i", "n", "g">>,
       <<"m", "a", "l", "w", "a", "r", "e">>,
       <<"t", "r", "o", "j", "a", "n">>,
       <<"v", "i", "r", "u", "s">>,
       <<"h", "a", "c", "k">>,
       <<"c", "r", "a", "c", "k">>,
       <<"k", "e", "y", "g", "e", "n">>,
       <<"w", "a", "r", "e", "z">>,
       <<"t", "o", "r", "r", "e", "n", "t">>,
       <<"p", "i", "r", "a", "t", "e">> >>

bannedTLDs ==
    << <<"a", "f">>,
       <<"i", "r">>,
       <<"i", "q">>,
       <<"l", "b">>,
       <<"l", "y">>,
       <<"p", "s">>,
       <<"s", "y">>,
       <<"y", "e">>,
       <<"b", "d">>,
       <<"k", "h">>,
       <<"i", "d">>,
       <<"l", "a">>,
       <<"m", "y">>,
       <<"m", "m">>,
       <<"k", "p">>,
       <<"p", "k">>,
       <<"t", "h">>,
       <<"v", "n">>,
       <<"b", "i">>,
       <<"c", "f">>,
       <<"c", "d">>,
       <<"l", "r">>,
       <<"m", "a">>,
       <<"s", "o">>,
       <<"s", "s">>,
       <<"s", "d">>,
       <<"t", "n">>,
       <<"z", "w">>,
       <<"b", "g">>,
       <<"c", "y">>,
       <<"m", "t">>,
       <<"r", "s">>,
       <<"r", "u">>,
       <<"c", "u">>,
       <<"n", "i">>,
       <<"v", "e">> >>

\* Object.entries(bannedWords) without the bannedTLDs entry, in declaration order.
bannedWords ==
    << [category |-> "adult", wordList |-> adult],
       [category |-> "drugs", wordList |-> drugs],
       [category |-> "gambling", wordList |-> gambling],
       [category |-> "weapons", wordList |-> weapons],
       [category |-> "punycode", wordList |-> punycode],
       [category |-> "malicious", wordList |-> malicious] >>

(***************************************************************************)
(* Request bodies and probe responses the environment can supply.          *)
(***************************************************************************)
UrlClean == <<"h", "t", "t", "p", ":", "/", "/", "a", ".", "c", "o", "/", "p">>
UrlStatic == <<"h", "t", "t", "p", "s", ":", "/", "/", "c", ".", "c", "o", "/">>
UrlBannedHost == <<"h", "t", "t", "p", ":", "/", "/", "x", "x", "x", ".", "c", "o", "/">>
UrlBannedPath == <<"h", "t", "t", "p", "s", ":", "/", "/", "a", ".", "c", "o", "/", "b", "e", "t">>
UrlBannedTLD == <<"h", "t", "t", "p", ":", "/", "/", "a", ".", "r", "u", "/", "p">>
UrlBannedTLDUpper == <<"H", "T", "T", "P", ":", "/", "/", "A", ".", "R", "U">>
UrlBannedQuery == <<"h", "t", "t", "p", ":", "/", "/", "a", ".", "c", "o", "/", "p", "?", "q", "=", "l", "s", "d">>
UrlNotAbsolute == <<"a", ".", "c", "o", "/", "p">>
LocRelative == <<"/", "q">>
LocSameHost == <<"h", "t", "t", "p", ":", "/", "/", "A", ".", "c", "o", "/", "q">>
LocOtherHost == <<"h", "t", "t", "p", ":", "/", "/", "b", ".", "c", "o", "/">>
LocProtocolRelative == <<"/", "/", "b", ".", "c", "o", "/", "q">>
LocNoSlash == <<"q", "?", "x">>
LocNoHost == <<"h", "t", "t", "p", ":", "/", "/">>
UrlHostLater == <<"h", "t", "t", "p", ":", "/", "/", "x", "x", "x", ".", "c", "o", "/", "p", "o", "r", "n">>
UrlPathLater == <<"h", "t", "t", "p", ":", "/", "/", "a", ".", "c", "o", "/", "x", "x", "x", "?", "q", "=", "p", "o", "r", "n">>
UrlTLDAndWord == <<"h", "t", "t", "p", ":", "/", "/", "x", "x", "x", ".", "r", "u", "/">>
UrlTwoCategories == <<"h", "t", "t", "p", ":", "/", "/", "b", "e", "t", ".", "c", "o", "/", "p", "o", "r", "n">>

\* Request bodies: <<>> is a body without 'url'.
RequestURLs ==
    { <<>>, UrlClean, UrlStatic, UrlBannedHost, UrlBannedPath, UrlBannedTLD, UrlBannedTLDUpper,
      UrlBannedQuery, UrlNotAbsolute }

\* Responses of the HEAD probe; location <<>> is a response without a Location header.
ProbeResponses ==
    { [status |-> 200, location |-> <<>>],
      [status |-> 301, location |-> <<>>],
      [status |-> 302, location |-> LocRelative],
      [status |-> 301, location |-> LocSameHost],
      [status |-> 301, location |-> LocOtherHost],
      [status |-> 302, location |-> LocProtocolRelative],
      [status |-> 404, location |-> LocOtherHost] }

(***************************************************************************)
(* Check results.  A result is [status, reason]; NullResult is the null    *)
(* a check returns when it has no finding.                                 *)
(***************************************************************************)
Result(s, r) == [status |-> s, reason |-> r]

NullResult == Result("null", "")

Pending == Result("pending", "")

Vocabulary == {"pass", "fail", "review", "error"}

\* A scan that looks for any word of the category in the hostname first, then for any in
\* the pathname, then for any in the full URL.
FirstBannedMatchByPlace(hostname, pathname, fullUrl) ==
    LET targets == <<hostname, pathname, fullUrl>>
        at(ci, wi, k) == includes(targets[k], bannedWords[ci].wordList[wi])
        catHit(ci) == \E wi \in 1..Len(bannedWords[ci].wordList), k \in 1..3 : at(ci, wi, k)
    IN IF ~\E ci \in 1..Len(bannedWords) : catHit(ci)
       THEN [found |-> FALSE, category |-> "", place |-> 0, word |-> <<>>]
       ELSE LET ci == CHOOSE c \in 1..Len(bannedWords) :
                          catHit(c) /\ \A d \in 1..(c - 1) : ~catHit(d)
                words == bannedWords[ci].wordList
                k == CHOOSE p \in 1..3 :
                          /\ \E w \in 1..Len(words) : at(ci, w, p)
                          /\ \A q \in 1..(p - 1) : \A w \in 1..Len(words) : ~at(ci, w, q)
                wi == CHOOSE w \in 1..Len(words) :
                          at(ci, w, k) /\ \A v \in 1..(w - 1) : ~at(ci, v, k)
            IN [found |-> TRUE, category |-> bannedWords[ci].category, place |-> k,
                word |-> words[wi]]

\* The first category, in declaration order, one of whose words occurs in any of the targets,
\* then its first such word, then the first target (hostname, pathname, full URL) it occurs in.
FirstBannedMatch(hostname, pathname, fullUrl) ==
    LET targets == <<hostname, pathname, fullUrl>>
        hit(ci, wi) == \E k \in 1..3 : includes(targets[k], bannedWords[ci].wordList[wi])
        catHit(ci) == \E wi \in 1..Len(bannedWords[ci].wordList) : hit(ci, wi)
    IN IF ~\E ci \in 1..Len(bannedWords) : catHit(ci)
       THEN [found |-> FALSE, category |-> "", place |-> 0, word |-> <<>>]
       ELSE LET ci == CHOOSE c \in 1..Len(bannedWords) :
                          catHit(c) /\ \A d \in 1..(c - 1) : ~catHit(d)
                wi == CHOOSE w \in 1..Len(bannedWords[ci].wordList) :
                          hit(ci, w) /\ \A v \in 1..(w - 1) : ~hit(ci, v)
                k == CHOOSE p \in 1..3 :
                          /\ includes(targets[p], bannedWords[ci].wordList[wi])
                          /\ \A q \in 1..(p - 1) : ~includes(targets[q], bannedWords[ci].wordList[wi])
            IN [found |-> TRUE, category |-> bannedWords[ci].category, place |-> k,
                word |-> bannedWords[ci].wordList[wi]]

\* checkBannedWords without the test of the last label against bannedTLDs.
checkBannedWordsSkipsTLD(urlString) ==
    LET parsedUrl == ParseURL(urlString)
        m == FirstBannedMatch(parsedUrl.hostname, toLowerCase(parsedUrl.pathname),
                              toLowerCase(urlString))
    IN IF ~parsedUrl.ok THEN NullResult
       ELSE IF m.found
            THEN Result("fail", "Banned content detected (" \o m.category \o ")")
       ELSE NullResult

checkBannedWords(urlString) ==
    LET parsedUrl == ParseURL(urlString)
        hostname == parsedUrl.hostname
        pathname == toLowerCase(parsedUrl.pathname)
        fullUrl == toLowerCase(urlString)
        tld == LastLabel(hostname)
        m == FirstBannedMatch(hostname, pathname, fullUrl)
    IN IF ~parsedUrl.ok THEN NullResult
       ELSE IF \E i \in 1..Len(bannedTLDs) : bannedTLDs[i] = tld
            THEN Result("fail", "Banned TLD detected")
       ELSE IF m.found
            THEN Result("fail", "Banned content detected (" \o m.category \o ")")
       ELSE NullResult

\* checkBannedWords with what its details name: the category, the place of the match
\* (1 hostname, 2 path, 3 full URL; 0 for a banned TLD) and the term.
BannedFinding(urlString) ==
    LET parsedUrl == ParseURL(urlString)
        hostname == parsedUrl.hostname
        m == FirstBannedMatch(hostname, toLowerCase(parsedUrl.pathname), toLowerCase(urlString))
    IN IF ~parsedUrl.ok \/ checkBannedWords(urlString) = NullResult
       THEN [status |-> "null", category |-> "", place |-> 0, word |-> <<>>]
       ELSE IF \E i \in 1..Len(bannedTLDs) : bannedTLDs[i] = LastLabel(hostname)
       THEN [status |-> "fail", category |-> "bannedTLD", place |-> 0, word |-> LastLabel(hostname)]
       ELSE [status |-> "fail", category |-> m.category, place |-> m.place, word |-> m.word]

\* What checkRedirect returns once the probe has answered; redirectHostname is the host
\* that the details and redirectUrl of an external redirect name.
Finding(s, r, h) == [status |-> s, reason |-> r, redirectHostname |-> h]

RedirectFinding(urlString, response) ==
    LET originalHostname == ParseURL(urlString).hostname
        location == response.location
        redirectUrl == IF startsWith(location, <<"/">>)
                       THEN ResolveURL(location, urlString)
                       ELSE ParseURL(location)
    IN IF response.status >= 300 /\ response.status < 400
       THEN IF location = <<>> THEN Finding("review", "Redirect without destination", <<>>)
            ELSE IF ~redirectUrl.ok THEN Finding("review", "Invalid redirect", <<>>)
            ELSE IF redirectUrl.hostname # originalHostname
                 THEN Finding("fail", "External redirect", redirectUrl.hostname)
            ELSE Finding(NullResult.status, NullResult.reason, <<>>)
       ELSE Finding(NullResult.status, NullResult.reason, <<>>)

\* The part of checkRedirect after the probe has answered.
ClassifyRedirect(urlString, response) ==
    Result(RedirectFinding(urlString, response).status, RedirectFinding(urlString, response).reason)

RedirectError == Result("error", "Redirect check failed")

\* The sample site c.co is static: whenever one of its collaborators answers, it
\* answers the same way (200 to the probe, fresh dates, clean content, one premium
\* ad network with one tracking pixel).
IsStaticSite(urlString) == ParseURL(urlString).hostname = <<"c", ".", "c", "o">>

\* What checkRedirect resolves to: the probe is issued only when the URL parses.
RedirectOutcomes(urlString) ==
    IF ~ParseURL(urlString).ok THEN {RedirectError}
    ELSE IF IsStaticSite(urlString)
         THEN {ClassifyRedirect(urlString, [status |-> 200, location |-> <<>>])}
    ELSE {ClassifyRedirect(urlString, r) : r \in ProbeResponses} \cup {RedirectError}

(***************************************************************************)
(* What the checks resolve to.                                             *)
(***************************************************************************)
\* contentRecencyChecker.checkRecency: it catches everything and never rejects.
RecencyOutcomes(urlString) ==
    IF ~ParseURL(urlString).ok
    THEN {Result("error", "Error checking content recency: Invalid URL")}
    ELSE IF IsStaticSite(urlString)
    THEN {Result("pass", "Content meets recency and historical requirements")}
    ELSE { Result("pass", "Content meets recency and historical requirements"),
           Result("fail", "Lacking 4 months or recent content"),
           Result("error", "Error checking content recency: request failed") }

\* hateSpeechChecker.checkContent
HateSpeechOutcomes ==
    { Result("error", "No content extracted"),
      Result("fail", "Problematic content detected"),
      Result("pass", "No hate speech detected") }

\* PlagiarismChecker.evaluateResults over the statuses of the per-paragraph results
\* ("undefined" is a result object without a status property).
PlagiarismEvaluate(statuses) ==
    LET count(s) == Cardinality({i \in 1..Len(statuses) : statuses[i] = s})
    IN IF Len(statuses) = 0 THEN Result("error", "No results to evaluate")
       ELSE IF count("fail") > 0
            THEN Result("fail", ToString(count("fail")) \o " paragraph(s) detected as potential plagiarism")
       ELSE IF count("review") > 0
            THEN Result("review", ToString(count("review")) \o " paragraph(s) need review for similarity")
       ELSE IF count("error") > 0
            THEN Result("error", ToString(count("error")) \o " paragraph(s) encountered errors during checking")
       ELSE Result("pass", "No plagiarism detected")

\* Default of MAX_PLAGIARISM_API_CALLS.
maxApiCalls == 2

\* checkParagraphs pushes a 'pass' result (no search hits), the best similarity
\* result (which has no status property) or an 'error' result per paragraph.
ParagraphStatuses == {"pass", "undefined", "error"}

\* plagiarismChecker.checkContent
PlagiarismOutcomes ==
    { PlagiarismEvaluate(ss) : ss \in UNION {[1..n -> ParagraphStatuses] : n \in 1..maxApiCalls} }

\* imageAnalyzer.analyzeUrl
ImageOutcomes ==
    { Result("error", "Error analyzing images"),
      Result("fail", "Inappropriate image content detected"),
      Result("pass", "No inappropriate images detected") }

\* AdAnalyzer.analyzeAdData: the decision on the counts of detected signals.
analyzeAdData(networks, trackingPixels, adCreatives, adElements) ==
    IF networks >= 2
    THEN Result("pass", "Sufficient premium ad networks detected")
    ELSE IF networks = 1 /\ (trackingPixels > 0 \/ adCreatives > 0)
    THEN Result("pass", "Premium ad network with ad activity detected")
    ELSE IF networks = 1
    THEN Result("failed", "Limited premium ad networks")
    ELSE IF trackingPixels > 0 \/ adCreatives > 0 \/ adElements > 0
    THEN Result("failed", "Ad activity without premium networks")
    ELSE Result("failed", "No ad activity detected")

\* Largest number of signals of one kind a page shows.
MaxSignals == 1

\* adAnalyzer.analyzeUrl
AdOutcomes ==
    { analyzeAdData(n, t, a, e) : n \in 0..MaxSignals, t \in 0..MaxSignals,
                                  a \in 0..MaxSignals, e \in 0..MaxSignals }
    \cup { Result("error", "Ad analysis failed") }

(***************************************************************************)
(* analyzeURL: the concurrent checks of phase 3, in array order.           *)
(***************************************************************************)
remainingChecks ==
    << [name |-> "hateSpeech", displayName |-> "Hate Speech", timeout |-> 60000],
       [name |-> "plagiarism", displayName |-> "Plagiarism", timeout |-> 60000],
       [name |-> "images", displayName |-> "Image Analysis", timeout |-> 90000],
       [name |-> "ads", displayName |-> "Ad Analysis", timeout |-> 60000] >>

ConcurrentNames == {remainingChecks[i].name : i \in 1..Len(remainingChecks)}

CheckOf(name) == remainingChecks[CHOOSE i \in 1..Len(remainingChecks) : remainingChecks[i].name = name]

RecencyTimeoutMs == 30000

TimedNames == ConcurrentNames \cup {"contentRecency"}

TimeoutOf(name) == IF name = "contentRecency" THEN RecencyTimeoutMs ELSE CheckOf(name).timeout

LongestDeadline ==
    CHOOSE d \in {TimeoutOf(n) : n \in ConcurrentNames} : \A n \in ConcurrentNames : TimeoutOf(n) <= d

\* The wrapper's catch: the runner rejected.
RunnerFailed(name) == Result("error", CheckOf(name).displayName \o " check failed")

\* What a runner's promise settles to.  Three of the checkers catch everything;
\* adAnalyzer.analyzeUrl awaits browser.close() inside its catch and can reject.
RunnerOutcomes(name, urlString) ==
    IF IsStaticSite(urlString)
    THEN CASE name = "hateSpeech" -> {Result("pass", "No hate speech detected")}
           [] name = "plagiarism" -> {PlagiarismEvaluate(<<"pass">>)}
           [] name = "images" -> {Result("pass", "No inappropriate images detected")}
           [] name = "ads" -> {analyzeAdData(1, 1, 0, 0)}
    ELSE CASE name = "hateSpeech" -> HateSpeechOutcomes
           [] name = "plagiarism" -> PlagiarismOutcomes
           [] name = "images" -> ImageOutcomes
           [] name = "ads" -> AdOutcomes \cup {RunnerFailed("ads")}

\* The race's catch: the timer rejected first.
TimedOut(name) == Result("error", "Check timed out")

RecencyTimedOut == Result("error", "Error checking content recency: Content recency check timed out after 30 seconds")

(***************************************************************************)
(* The report.  checks is the object's entries in insertion order.          *)
(***************************************************************************)
NoStorage == [present |-> FALSE, success |-> FALSE, status |-> ""]

InitialResults ==
    [status |-> "pending", checks |-> <<>>, contentRecency |-> NullResult, hasRecency |-> FALSE,
     databaseStorage |-> NoStorage]

HasKey(checks, name) == \E i \in 1..Len(checks) : checks[i].name = name

Lookup(checks, name) == checks[CHOOSE i \in 1..Len(checks) : checks[i].name = name].result

\* results.checks[name] = result
SetCheck(checks, name, result) ==
    IF HasKey(checks, name)
    THEN [i \in 1..Len(checks) |-> IF checks[i].name = name
                                   THEN [name |-> name, result |-> result] ELSE checks[i]]
    ELSE Append(checks, [name |-> name, result |-> result])

\* checkResults.forEach over the settled races, in array order.
RECURSIVE RecordSettled(_, _, _)
RecordSettled(checks, settled, i) ==
    IF i > Len(remainingChecks) THEN checks
    ELSE RecordSettled(SetCheck(checks, remainingChecks[i].name, settled[remainingChecks[i].name]),
                       settled, i + 1)

\* The flags set by the forEach over Object.values(results.checks).
RECURSIVE ScanFlags(_, _, _)
ScanFlags(checks, i, flags) ==
    IF i > Len(checks) THEN flags
    ELSE ScanFlags(checks, i + 1,
                   IF checks[i].result.status = "fail" THEN [flags EXCEPT !.hasFailure = TRUE]
                   ELSE IF checks[i].result.status = "error" THEN [flags EXCEPT !.hasError = TRUE]
                   ELSE IF checks[i].result.status = "review" THEN [flags EXCEPT !.hasReview = TRUE]
                   ELSE flags)

\* The aggregation without its final else: a report without findings keeps its status.
FinalStatusKeepsPrevious(flags, previous) ==
    IF flags.hasFailure THEN "fail"
    ELSE IF flags.hasError THEN "error"
    ELSE IF flags.hasReview THEN "review"
    ELSE previous

\* if (hasFailure) ... else if (hasError) ... else if (hasReview) ... else 'pass'
FinalStatus(flags, previous) ==
    IF flags.hasFailure THEN "fail"
    ELSE IF flags.hasError THEN "error"
    ELSE IF flags.hasReview THEN "review"
    ELSE "pass"

\* The aggregation without its hasError branch.
OverallStatusIgnoresErrors(checks, previous) ==
    FinalStatus([ScanFlags(checks, 1, [hasFailure |-> FALSE, hasError |-> FALSE, hasReview |-> FALSE])
                     EXCEPT !.hasError = FALSE],
                previous)

OverallStatus(checks, previous) ==
    FinalStatus(ScanFlags(checks, 1, [hasFailure |-> FALSE, hasError |-> FALSE, hasReview |-> FALSE]),
                previous)

\* SQLGenerator.getOverallStatus: 'passed' or 'failed' (a report has no phases).
getOverallStatus(auditResult) ==
    IF \E i \in 1..Len(auditResult.checks) : auditResult.checks[i].result.status \in {"fail", "failed"}
    THEN "failed"
    ELSE IF auditResult.status = "pass" THEN "passed" ELSE "failed"

\* A catch that also retracts the verdict.
StorageFailedRetracts(results) ==
    [results EXCEPT !.status = "error",
                    !.databaseStorage = [present |-> TRUE, success |-> FALSE, status |-> ""]]

\* The databaseStorage field after a failure to generate or apply the commands.
StorageFailed(results) ==
    [results EXCEPT !.databaseStorage = [present |-> TRUE, success |-> FALSE, status |-> ""]]

StorageSucceeded(results) ==
    [results EXCEPT !.databaseStorage =
        [present |-> TRUE, success |-> TRUE, status |-> getOverallStatus(results)]]

(***************************************************************************)
(* contentRecencyChecker.evaluateDates.  A date is a time in minutes (the  *)
(* code counts milliseconds); Clock is the value of new Date().            *)
(***************************************************************************)
DayUnits == 1440

Clock == 200 * DayUnits

\* dates.sort((a, b) => b - a): newest first.
RECURSIVE SortNewestFirst(_)
SortNewestFirst(dates) ==
    IF Len(dates) <= 1 THEN dates
    ELSE LET rest == SortNewestFirst(Tail(dates))
             d == Head(dates)
             k == Cardinality({i \in 1..Len(rest) : rest[i] >= d})
         IN SubSeq(rest, 1, k) \o <<d>> \o SubSeq(rest, k + 1, Len(rest))

\* Math.round of a number of days given in time units (halves round up).
RoundDays(units) == (2 * units + DayUnits) \div (2 * DayUnits)

\* evaluateDates with the first bound exclusive (>= 30 fails).
evaluateDatesExclusive(dates) ==
    LET sorted == SortNewestFirst(dates)
        sinceRecent == Clock - sorted[1]
        sinceOldest == Clock - sorted[Len(sorted)]
    IN IF sinceRecent >= 30 * DayUnits
       THEN [status |-> "fail", reason |-> "Lacking 4 months or recent content",
             details |-> "Most recent content is " \o ToString(RoundDays(sinceRecent))
                            \o " days old (must be less than 30 days)"]
       ELSE IF sinceOldest < 95 * DayUnits
       THEN [status |-> "fail", reason |-> "Lacking 4 months or recent content",
             details |-> "Oldest content is only " \o ToString(RoundDays(sinceOldest))
                            \o " days old (must be more than 95 days)"]
       ELSE [status |-> "pass", reason |-> "Content meets recency and historical requirements",
             details |-> "Content ranges from " \o ToString(RoundDays(sinceRecent)) \o " to "
                            \o ToString(RoundDays(sinceOldest)) \o " days old"]

evaluateDates(dates) ==
    LET sorted == SortNewestFirst(dates)
        sinceRecent == Clock - sorted[1]
        sinceOldest == Clock - sorted[Len(sorted)]
    IN IF sinceRecent > 30 * DayUnits
       THEN [status |-> "fail", reason |-> "Lacking 4 months or recent content",
             details |-> "Most recent content is " \o ToString(RoundDays(sinceRecent))
                            \o " days old (must be less than 30 days)"]
       ELSE IF sinceOldest < 95 * DayUnits
       THEN [status |-> "fail", reason |-> "Lacking 4 months or recent content",
             details |-> "Oldest content is only " \o ToString(RoundDays(sinceOldest))
                            \o " days old (must be more than 95 days)"]
       ELSE [status |-> "pass", reason |-> "Content meets recency and historical requirements",
             details |-> "Content ranges from " \o ToString(RoundDays(sinceRecent)) \o " to "
                            \o ToString(RoundDays(sinceOldest)) \o " days old"]

\* Ages, in time units, of the dates a source can yield: around both bounds, and one
\* date in the future.
SampleAges ==
    { 0 - DayUnits, 0, 30 * DayUnits, 30 * DayUnits + 1, 31 * DayUnits,
      94 * DayUnits, 95 * DayUnits - 1, 95 * DayUnits, 120 * DayUnits }

SampleDates == {Clock - a : a \in SampleAges}

\* Largest number of dates in one evidence set.
MaxDates == 2

DateLists == UNION {[1..n -> SampleDates] : n \in 1..MaxDates}

(***************************************************************************)
(* contentRecencyChecker.checkRecency.  A site is what each of its         *)
(* locations yields when asked: a list of dates, empty when the request    *)
(* fails or the document holds no date.  A result's requested field is the *)
(* locations asked, in the order of the requests.                          *)
(***************************************************************************)
primarySitemapPaths == <<"/sitemap.xml", "/sitemap_index.xml">>

fallbackSitemapPaths ==
    <<"/wp-sitemap.xml", "/sitemap/sitemap.xml", "/sitemaps/sitemap.xml", "/sitemap/index.xml",
      "/sitemap.php", "/sitemap_news.xml", "/sitemap/web.xml", "/sitemap/category.xml",
      "/sitemap/post.xml", "/sitemap/page.xml">>

additionalPaths ==
    <<"/archive", "/archives", "/blog", "/news", "/articles", "/older-news", "/history",
      "/about", "/about-us", "/company", "/tos", "/legal">>

\* The number of fallback locations, and of additional pages, that are modelled
\* (the first ones of each list).
MaxPaths == 1

FallbackPaths == SubSeq(fallbackSitemapPaths, 1, MaxPaths)

AdditionalPaths == SubSeq(additionalPaths, 1, MaxPaths)

\* The page under audit, as a location.
MainPage == "(url)"

Range(s) == {s[i] : i \in 1..Len(s)}

Locations == Range(primarySitemapPaths) \cup Range(FallbackPaths) \cup {MainPage} \cup Range(AdditionalPaths)

FreshDate == Clock - 2 * DayUnits

OldDate == Clock - 120 * DayUnits

SourceYields == { <<>>, <<FreshDate>>, <<OldDate>>, <<OldDate, FreshDate>> }

Sites == [Locations -> SourceYields]

\* allDates after the locations paths[1..n] have answered, starting from pool.
RECURSIVE Collect(_, _, _, _)
Collect(site, paths, n, pool) ==
    IF n = 0 THEN pool ELSE Collect(site, paths, n - 1, pool) \o site[paths[n]]

\* An exit taken as soon as a source yields dates, whatever their evaluation.
PassesAnyDates(dates) == dates # <<>>

\* if (dates && dates.length > 0) ... if (evaluation.status === 'pass')
Passes(dates) == dates # <<>> /\ evaluateDates(dates).status = "pass"

Evaluated(dates, requested) ==
    [status |-> evaluateDates(dates).status, reason |-> evaluateDates(dates).reason,
     details |-> evaluateDates(dates).details, requested |-> requested]

\* The final return with the reason of a failed evaluation.
NoDatesFoundLacking(requested) ==
    [status |-> "fail", reason |-> "Lacking 4 months or recent content",
     details |-> "Could not determine content recency", requested |-> requested]

\* The return at the end of checkRecency when allDates is empty.
NoDatesFound(requested) ==
    [status |-> "fail", reason |-> "No dates found in any source",
     details |-> "Could not determine content recency", requested |-> requested]

\* The loop over additionalPaths from index i on, then the final evaluation.
RECURSIVE ProbeAdditional(_, _, _, _)
ProbeAdditional(site, i, pool, requested) ==
    IF i > Len(AdditionalPaths)
    THEN IF pool # <<>> THEN Evaluated(pool, requested) ELSE NoDatesFound(requested)
    ELSE LET path == AdditionalPaths[i]
             grown == pool \o site[path]
         IN IF site[path] # <<>> /\ Passes(grown)
            THEN Evaluated(grown, Append(requested, path))
            ELSE ProbeAdditional(site, i + 1, grown, Append(requested, path))

\* Steps 2 and 3 of checkRecency: the fallback site maps, all requested at once (their
\* answers taken in array order), then the page itself, then the additional pages.
AfterPrimary(site, pool, requested) ==
    LET asked == requested \o FallbackPaths
        exits(i) == site[FallbackPaths[i]] # <<>> /\ Passes(Collect(site, FallbackPaths, i, pool))
        all == Collect(site, FallbackPaths, Len(FallbackPaths), pool)
        withPage == all \o site[MainPage]
    IN IF \E i \in 1..Len(FallbackPaths) : exits(i)
       THEN LET first == CHOOSE i \in 1..Len(FallbackPaths) :
                             exits(i) /\ \A j \in 1..(i - 1) : ~exits(j)
            IN Evaluated(Collect(site, FallbackPaths, first, pool), asked)
       ELSE IF site[MainPage] # <<>> /\ Passes(withPage)
       THEN Evaluated(withPage, Append(asked, MainPage))
       ELSE ProbeAdditional(site, 1, withPage, Append(asked, MainPage))

\* checkRecency that goes on to the fallback locations whatever the primary ones yield.
checkRecencyNeverExitsEarly(urlOk, site) ==
    IF ~urlOk
    THEN [status |-> "error", reason |-> "Error checking content recency: Invalid URL",
          details |-> "", requested |-> <<>>]
    ELSE AfterPrimary(site, Collect(site, primarySitemapPaths, Len(primarySitemapPaths), <<>>),
                      primarySitemapPaths)

checkRecency(urlOk, site) ==
    LET asked == primarySitemapPaths
        alone(i) == Passes(site[primarySitemapPaths[i]])
        kept == [i \in 1..Len(primarySitemapPaths) |->
                    IF alone(i) THEN <<>> ELSE site[primarySitemapPaths[i]]]
        pool == kept[1] \o kept[2]
    IN IF ~urlOk
       THEN [status |-> "error", reason |-> "Error checking content recency: Invalid URL",
             details |-> "", requested |-> <<>>]
       ELSE IF \E i \in 1..Len(primarySitemapPaths) : alone(i)
       THEN LET first == CHOOSE i \in 1..Len(primarySitemapPaths) :
                             alone(i) /\ \A j \in 1..(i - 1) : ~alone(j)
            IN Evaluated(site[primarySitemapPaths[first]], asked)
       ELSE IF Passes(pool)
       THEN Evaluated(pool, asked)
       ELSE AfterPrimary(site, pool, asked)

(***************************************************************************)
(* The plagiarism checker's similarity score.  A text is a sequence of     *)
(* characters; a score is the quotient num / den, and nan marks the 0 / 0  *)
(* that JavaScript evaluates to NaN.                                       *)
(***************************************************************************)
Space == " "

\* str.split(/\s+/): the maximal runs of characters between white space (the empty
\* strings a leading or trailing space adds are among them).
RECURSIVE split(_, _, _)
split(str, i, word) ==
    IF i > Len(str) THEN <<word>>
    ELSE IF str[i] = Space
         THEN IF i > 1 /\ str[i - 1] = Space
              THEN split(str, i + 1, word)
              ELSE <<word>> \o split(str, i + 1, <<>>)
         ELSE split(str, i + 1, Append(word, str[i]))

\* new Set(str.toLowerCase().split(/\s+/).filter(w => w.length > 3))
WordSet(str) ==
    LET words == split(toLowerCase(str), 1, <<>>)
    IN {words[i] : i \in {j \in 1..Len(words) : Len(words[j]) > 3}}

Quotient(n, d) == [nan |-> (d = 0), num |-> n, den |-> d]

calculateSimilarity(str1, str2) ==
    LET set1 == WordSet(str1)
        set2 == WordSet(str2)
        intersection == {x \in set1 : x \in set2}
        union == set1 \cup set2
    IN Quotient(Cardinality(intersection), Cardinality(union))

SampleWords ==
    << <<"T", "h", "e">>, <<"c", "a", "t", "s">>, <<"L", "o", "r", "e", "m">>,
       <<"l", "o", "r", "e", "m">>, <<"i", "p", "s", "u", "m">> >>

MaxWords == 2

RECURSIVE Join(_)
Join(words) ==
    IF Len(words) = 0 THEN <<>>
    ELSE IF Len(words) = 1 THEN words[1]
    ELSE words[1] \o <<Space>> \o Join(Tail(words))

SampleTexts ==
    {Join([i \in DOMAIN pick |-> SampleWords[pick[i]]]) :
        pick \in UNION {[1..n -> 1..Len(SampleWords)] : n \in 1..MaxWords}}

(***************************************************************************)
(* The plagiarism checker's pass over the paragraphs.  A paragraph comes   *)
(* with the contents of the pages the search returns for it; threw marks a *)
(* paragraph whose processing throws.                                      *)
(***************************************************************************)
\* a > b on numbers, false when either is NaN.
Greater(a, b) == ~a.nan /\ ~b.nan /\ a.num * b.den > b.num * a.den

\* similarityResults.reduce((max, result) => result.similarityScore > max.similarityScore
\* ? result : max, { similarityScore: 0 })
RECURSIVE highestSimilarity(_, _, _)
highestSimilarity(scores, i, max) ==
    IF i > Len(scores) THEN max
    ELSE highestSimilarity(scores, i + 1, IF Greater(scores[i], max) THEN scores[i] ELSE max)

\* The result pushed for one paragraph: 'pass' when the search returns nothing, 'error'
\* when the processing throws, else the best similarity result, an object that has no
\* status property ("undefined").
ParagraphResult(p) ==
    IF p.threw THEN [status |-> "error", similarityScore |-> Quotient(0, 1)]
    ELSE IF Len(p.searchResults) = 0 THEN [status |-> "pass", similarityScore |-> Quotient(0, 1)]
    ELSE [status |-> "undefined",
          similarityScore |->
              highestSimilarity([i \in 1..Len(p.searchResults) |->
                                    calculateSimilarity(p.paragraph, p.searchResults[i])],
                                1, Quotient(0, 1))]

checkParagraphs(paragraphs) ==
    LET paragraphsToCheck == SubSeq(paragraphs, 1, IF Len(paragraphs) < maxApiCalls THEN Len(paragraphs) ELSE maxApiCalls)
    IN [i \in 1..Len(paragraphsToCheck) |-> ParagraphResult(paragraphsToCheck[i])]

\* checkContent from the paragraphs on: evaluateResults(checkParagraphs(paragraphs)),
\* with the scores that the details list.
PlagiarismCheck(paragraphs) ==
    LET results == checkParagraphs(paragraphs)
        evaluated == PlagiarismEvaluate([i \in 1..Len(results) |-> results[i].status])
    IN [status |-> evaluated.status, reason |-> evaluated.reason,
        similarityScores |-> [i \in 1..Len(results) |-> results[i].similarityScore]]

Lorem == <<"L", "o", "r", "e", "m">>

ParagraphTexts == {Join(<<Lorem, <<"i", "p", "s", "u", "m">> >>), <<"T", "h", "e">>}

PageContents ==
    {Join(<<Lorem, <<"i", "p", "s", "u", "m">> >>), Join(<<Lorem, <<"c", "a", "t", "s">> >>), <<"T", "h", "e">>}

MaxResults == 2

MaxParagraphs == 2

SampleParagraphs ==
    {[paragraph |-> t, searchResults |-> s, threw |-> FALSE] :
        t \in ParagraphTexts, s \in UNION {[1..n -> PageContents] : n \in 0..MaxResults}}
    \cup {[paragraph |-> t, searchResults |-> <<>>, threw |-> TRUE] : t \in ParagraphTexts}

(***************************************************************************)
(* The hate-speech checker, from the extracted content on.  The answers of *)
(* the language service are inputs: one per analysed chunk.                *)
(***************************************************************************)
problematicPhrases ==
    << <<"k", "i", "l", "l", " ", "a", "l", "l">>,
       <<"d", "e", "a", "t", "h", " ", "t", "o">>,
       <<"s", "h", "o", "u", "l", "d", " ", "d", "i", "e">>,
       <<"w", "a", "s", " ", "r", "i", "g", "h", "t", " ", "a", "b", "o", "u", "t">>,
       <<"w", "a", "s", " ", "r", "i", "g", "h", "t", " ", "a", "b", "t">>,
       <<"d", "e", "s", "e", "r", "v", "e", " ", "t", "o">>,
       <<"h", "a", "t", "e", " ", "a", "l", "l">>,
       <<"e", "l", "i", "m", "i", "n", "a", "t", "e", " ", "a", "l", "l">> >>

\* s.indexOf(w), counted from 1; 0 when w does not occur.
indexOf(s, w) ==
    LET at(i) == \A k \in 1..Len(w) : s[i + k - 1] = w[k]
        starts == 1..(Len(s) - Len(w) + 1)
    IN IF \E i \in starts : at(i)
       THEN CHOOSE i \in starts : at(i) /\ \A j \in 1..(i - 1) : ~at(j)
       ELSE 0

quickScanCaseSensitive(content) ==
    LET index == [p \in 1..Len(problematicPhrases) |-> indexOf(content, problematicPhrases[p])]
        RECURSIVE found(_)
        found(p) == IF p > Len(problematicPhrases) THEN <<>>
                    ELSE (IF index[p] # 0 THEN <<[phrase |-> problematicPhrases[p], index |-> index[p]]>> ELSE <<>>)
                         \o found(p + 1)
    IN found(1)

\* The phrases found, in list order (each with the place of its first occurrence).
quickScan(content) ==
    LET lowerContent == toLowerCase(content)
        index == [p \in 1..Len(problematicPhrases) |-> indexOf(lowerContent, problematicPhrases[p])]
        RECURSIVE found(_)
        found(p) == IF p > Len(problematicPhrases) THEN <<>>
                    ELSE (IF index[p] # 0 THEN <<[phrase |-> problematicPhrases[p], index |-> index[p]]>> ELSE <<>>)
                         \o found(p + 1)
    IN found(1)

\* Default of splitContent's maxChunkSize.
maxChunkSize == 1000

SentenceEnd == {".", "!", "?"}

\* content.split(/(?<=[.!?])\s+/)
RECURSIVE Sentences(_, _)
Sentences(content, from) ==
    LET breaks == {i \in (from + 1)..Len(content) : content[i] = Space /\ content[i - 1] \in SentenceEnd}
    IN IF breaks = {} THEN <<SubSeq(content, from, Len(content))>>
       ELSE LET break == CHOOSE i \in breaks : \A j \in breaks : i <= j
                rest == {i \in break..Len(content) : content[i] # Space}
                next == IF rest = {} THEN Len(content) + 1 ELSE CHOOSE i \in rest : \A j \in rest : i <= j
            IN <<SubSeq(content, from, break - 1)>> \o Sentences(content, next)

RECURSIVE Chunks(_, _, _, _)
Chunks(sentences, i, chunks, currentChunk) ==
    IF i > Len(sentences)
    THEN IF currentChunk # <<>> THEN Append(chunks, currentChunk) ELSE chunks
    ELSE IF Len(currentChunk) + Len(sentences[i]) > maxChunkSize
         THEN Chunks(sentences, i + 1, Append(chunks, currentChunk), sentences[i])
         ELSE Chunks(sentences, i + 1, chunks,
                     currentChunk \o (IF currentChunk # <<>> THEN <<Space>> ELSE <<>>) \o sentences[i])

splitContent(content) == Chunks(Sentences(content, 1), 1, <<>>, <<>>)

\* Default of MAX_HATE_SPEECH_API_CALLS.
maxHateSpeechApiCalls == 2

\* The three requests made for one chunk: analyzeSentiment, analyzeEntitySentiment,
\* classifyText.
RequestsPerChunk == 3

\* The language service's answer for a chunk: failedAt is the request that threw (0
\* when none did); scores are in tenths.
Answer(f, s, e, c) == [failedAt |-> f, sentiment |-> s, entities |-> e, categories |-> c]

\* The loop of analyzeTextChunks from chunk i on: a chunk whose three requests succeed
\* adds its result, a chunk with a request that throws adds nothing.
RECURSIVE AnalyzeFrom(_, _, _, _, _)
AnalyzeFrom(chunks, answers, i, analysed, calls) ==
    IF i > Len(chunks) \/ i > maxHateSpeechApiCalls THEN [analysed |-> analysed, calls |-> calls]
    ELSE IF answers[i].failedAt = 0
         THEN AnalyzeFrom(chunks, answers, i + 1, Append(analysed, answers[i]), calls + RequestsPerChunk)
         ELSE AnalyzeFrom(chunks, answers, i + 1, analysed, calls + answers[i].failedAt)

analyzeTextChunksAllOrNothing(chunks, answers) ==
    LET all == AnalyzeFrom(chunks, answers, 1, <<>>, 0)
    IN IF \E i \in 1..Len(chunks) : i <= maxHateSpeechApiCalls /\ answers[i].failedAt # 0
       THEN [analysed |-> <<>>, calls |-> all.calls]
       ELSE all

\* The results of the analysed chunks, and the number of requests made.
analyzeTextChunks(chunks, answers) == AnalyzeFrom(chunks, answers, 1, <<>>, 0)

\* score < -0.7, in tenths.
VeryNegative(score) == score < -7

SensitiveNames == { <<"/", "S", "e", "n", "s", "i", "t", "i", "v", "e">>, <<"/", "A", "d", "u", "l", "t">>,
                    <<"/", "H", "a", "t", "e">> }

HateSpeechEvaluate(analysed) ==
    LET hasNegativeSentiment == \E i \in 1..Len(analysed) : VeryNegative(analysed[i].sentiment)
        hasNegativeEntitySentiment ==
            \E i \in 1..Len(analysed) : \E j \in 1..Len(analysed[i].entities) :
                /\ VeryNegative(analysed[i].entities[j].score)
                /\ analysed[i].entities[j].type \in {"PERSON", "ORGANIZATION", "OTHER"}
        hasSensitiveCategories ==
            \E i \in 1..Len(analysed) : \E j \in 1..Len(analysed[i].categories) :
                \E name \in SensitiveNames : includes(analysed[i].categories[j], name)
    IN IF Len(analysed) = 0
       THEN [status |-> "error", reason |-> "Analysis failed",
             details |-> "Could not obtain analysis results from the NLP API"]
       ELSE IF ~hasNegativeSentiment /\ ~hasNegativeEntitySentiment /\ ~hasSensitiveCategories
       THEN [status |-> "pass", reason |-> "No hate speech detected",
             details |-> "NLP content analysis shows no indicators of hate speech"]
       ELSE [status |-> "fail", reason |-> "Hate speech detected",
             details |-> "NLP analysis found indicators of potentially harmful content"]

\* checkContent from the chunks on: evaluateResults(analyzeTextChunks(chunks)); calls
\* counts the requests made to the language service, totalChunks the chunks analysed.
AnalysisResult(chunks, answers) ==
    LET analysis == analyzeTextChunks(chunks, answers)
        evaluated == HateSpeechEvaluate(analysis.analysed)
    IN [status |-> evaluated.status, reason |-> evaluated.reason, details |-> evaluated.details,
        calls |-> analysis.calls, totalChunks |-> Len(analysis.analysed)]

\* HateSpeechChecker.checkContent once extractContent has returned content (empty for
\* none).
HateSpeechCheck(content, answers) ==
    LET quickScanResults == quickScan(content)
    IN IF Len(content) < 10
       THEN [status |-> "error", reason |-> "No content extracted",
             details |-> "Could not extract meaningful content from the provided URL",
             calls |-> 0, totalChunks |-> 0]
       ELSE IF Len(quickScanResults) > 0
       THEN [status |-> "fail", reason |-> "Problematic content detected",
             details |-> "Found " \o ToString(Len(quickScanResults)) \o " instances of problematic phrases",
             calls |-> 0, totalChunks |-> 0]
       ELSE AnalysisResult(splitContent(content), answers)

\* truncateText: the text as it is up to maxLength characters, else cut after the last
\* sentence end among the first maxLength characters (not counting the first
\* character), or at maxLength when there is none, with an ellipsis.
truncateText(text, maxLength) ==
    LET ends == {i \in 2..maxLength : text[i] \in SentenceEnd}
        lastSentenceEnd == CHOOSE i \in ends : \A j \in ends : j <= i
        ellipsis == <<".", ".", ".">>
    IN IF Len(text) <= maxLength THEN text
       ELSE IF ends = {} THEN SubSeq(text, 1, maxLength) \o ellipsis
       ELSE SubSeq(text, 1, lastSentenceEnd) \o ellipsis

\* The length extractContent truncates the page's text to.
extractLimit == 500

LongSentence == [i \in 1..600 |-> IF i = 600 THEN "." ELSE <<"l", "o", "r", "e", "m", Space>>[((i - 1) % 6) + 1]]

ShortContent == <<"k", "i", "l", "l", " ", "a", "l", "l">>

HitContent == <<"T", "h", "e", "y", " ", "s", "h", "o", "u", "l", "d", " ", "D", "I", "E", " ", "n", "o", "w", ".">>

CleanContent == <<"L", "o", "r", "e", "m", " ", "i", "p", "s", "u", "m", " ", "d", "o", "l", "o", "r", ".">>

\* A phrase late in a long text without a sentence end.
HitInLongText == SubSeq(LongSentence, 1, 480) \o <<"H", "A", "T", "E", " ", "A", "L", "L", " ">> \o SubSeq(LongSentence, 1, 120)

\* A phrase among the first characters of a long text, after its last sentence end.
HitAfterSentenceEnd == <<"L", "o", "r", "e", "m", " ", "i", "p", "s", "u", "m", ".", " ", "H", "a", "t", "e", " ", "a", "l", "l", " ">> \o SubSeq(LongSentence, 1, 599)

\* The page texts once white space is collapsed.
PageTexts == {ShortContent, HitContent, CleanContent, LongSentence, HitInLongText, HitAfterSentenceEnd}

\* What extractContent returns for them.
SampleContents == {truncateText(text, extractLimit) : text \in PageTexts}

\* Chunk arrays for analyzeTextChunks.
MaxChunks == 3

SampleChunks == UNION {[1..n -> {CleanContent, HitContent}] : n \in 1..MaxChunks}

SampleAnswers ==
    { Answer(1, 0, <<>>, <<>>),
      Answer(3, 0, <<>>, <<>>),
      Answer(0, -7, <<[type |-> "LOCATION", score |-> -8]>>, << <<"/", "N", "e", "w", "s">> >>),
      Answer(0, -8, <<>>, <<>>),
      Answer(0, 0, <<[type |-> "PERSON", score |-> -8]>>, <<>>),
      Answer(0, 0, <<>>, << <<"/", "A", "d", "u", "l", "t">> >>) }

(***************************************************************************)
(* Inputs of checkRedirect: a URL that parses and the probe's answer.      *)
(***************************************************************************)
ProbedURLs == {UrlClean, UrlStatic}

ProbeStatuses == {200, 299, 300, 301, 399, 400, 404}

ProbeLocations ==
    {<<>>, LocRelative, LocSameHost, LocOtherHost, LocProtocolRelative, LocNoSlash, LocNoHost}

(***************************************************************************)
(* SQLGenerator: the rejection codes.  Reasons and keys are sequences of   *)
(* characters; a code is a string, empty for none.                         *)
(***************************************************************************)
Entry(k, c) == [key |-> k, code |-> c]

\* new Map([...]): the entries in declaration order.
rejectionMap ==
    << Entry(<<"B", "a", "n", "n", "e", "d", " ", "w", "o", "r", "d", " ", "d", "e", "t", "e", "c", "t", "e", "d", " ", "i", "n", " ", "U", "R", "L">>, "261"),
       Entry(<<"E", "x", "t", "e", "r", "n", "a", "l", " ", "r", "e", "d", "i", "r", "e", "c", "t", " ", "d", "e", "t", "e", "c", "t", "e", "d">>, "277"),
       Entry(<<"S", "i", "t", "e", " ", "f", "a", "i", "l", "e", "d", " ", "t", "o", " ", "l", "o", "a", "d">>, "298"),
       Entry(<<"G", "e", "o", "-", "b", "l", "o", "c", "k", "i", "n", "g", " ", "d", "e", "t", "e", "c", "t", "e", "d">>, "298"),
       Entry(<<"C", "o", "n", "t", "e", "n", "t", " ", "t", "o", "o", " ", "o", "l", "d">>, "284"),
       Entry(<<"L", "a", "c", "k", "i", "n", "g", " ", "4", " ", "m", "o", "n", "t", "h", "s", " ", "o", "r", " ", "r", "e", "c", "e", "n", "t", " ", "c", "o", "n", "t", "e", "n", "t">>, "284"),
       Entry(<<"N", "o", " ", "d", "a", "t", "e", " ", "i", "n", "f", "o", "r", "m", "a", "t", "i", "o", "n", " ", "f", "o", "u", "n", "d">>, "298"),
       Entry(<<"U", "n", "a", "b", "l", "e", " ", "t", "o", " ", "e", "x", "t", "r", "a", "c", "t", " ", "d", "a", "t", "e", "s", " ", "f", "r", "o", "m", " ", "c", "o", "n", "t", "e", "n", "t">>, "284"),
       Entry(<<"H", "a", "t", "e", " ", "s", "p", "e", "e", "c", "h", " ", "d", "e", "t", "e", "c", "t", "e", "d">>, "272"),
       Entry(<<"M", "u", "l", "t", "i", "p", "l", "e", " ", "i", "n", "s", "t", "a", "n", "c", "e", "s", " ", "o", "f", " ", "c", "o", "n", "c", "e", "r", "n", "i", "n", "g", " ", "c", "o", "n", "t", "e", "n", "t">>, "272"),
       Entry(<<"E", "x", "p", "l", "i", "c", "i", "t", " ", "h", "a", "r", "m", "f", "u", "l", " ", "c", "o", "n", "t", "e", "n", "t", " ", "d", "e", "t", "e", "c", "t", "e", "d">>, "272"),
       Entry(<<"C", "o", "n", "t", "e", "n", "t", " ", "s", "i", "m", "i", "l", "a", "r", "i", "t", "y", " ", "a", "b", "o", "v", "e", " ", "8", "5", "%", " ", "t", "h", "r", "e", "s", "h", "o", "l", "d">>, "64"),
       Entry(<<"M", "u", "l", "t", "i", "p", "l", "e", " ", "p", "a", "r", "a", "g", "r", "a", "p", "h", "s", " ", "a", "p", "p", "e", "a", "r", " ", "t", "o", " ", "b", "e", " ", "p", "l", "a", "g", "i", "a", "r", "i", "z", "e", "d">>, "64"),
       Entry(<<"U", "n", "a", "b", "l", "e", " ", "t", "o", " ", "v", "e", "r", "i", "f", "y", " ", "c", "o", "n", "t", "e", "n", "t", " ", "o", "r", "i", "g", "i", "n", "a", "l", "i", "t", "y">>, "64"),
       Entry(<<"A", "d", "u", "l", "t", " ", "c", "o", "n", "t", "e", "n", "t", " ", "d", "e", "t", "e", "c", "t", "e", "d", " ", "i", "n", " ", "i", "m", "a", "g", "e", "s">>, "272"),
       Entry(<<"V", "i", "o", "l", "e", "n", "t", " ", "c", "o", "n", "t", "e", "n", "t", " ", "d", "e", "t", "e", "c", "t", "e", "d", " ", "i", "n", " ", "i", "m", "a", "g", "e", "s">>, "272"),
       Entry(<<"I", "n", "a", "p", "p", "r", "o", "p", "r", "i", "a", "t", "e", " ", "i", "m", "a", "g", "e", "r", "y", " ", "d", "e", "t", "e", "c", "t", "e", "d">>, "272"),
       Entry(<<"I", "n", "a", "p", "p", "r", "o", "p", "r", "i", "a", "t", "e", " ", "i", "m", "a", "g", "e", " ", "c", "o", "n", "t", "e", "n", "t", " ", "d", "e", "t", "e", "c", "t", "e", "d">>, "272"),
       Entry(<<"N", "o", " ", "a", "d", " ", "i", "m", "p", "l", "e", "m", "e", "n", "t", "a", "t", "i", "o", "n", " ", "d", "e", "t", "e", "c", "t", "e", "d">>, "298"),
       Entry(<<"N", "o", " ", "a", "d", " ", "a", "c", "t", "i", "v", "i", "t", "y", " ", "d", "e", "t", "e", "c", "t", "e", "d">>, "298"),
       Entry(<<"I", "n", "s", "u", "f", "f", "i", "c", "i", "e", "n", "t", " ", "p", "r", "e", "m", "i", "u", "m", " ", "a", "d", " ", "p", "a", "r", "t", "n", "e", "r", "s">>, "298"),
       Entry(<<"A", "d", " ", "a", "c", "t", "i", "v", "i", "t", "y", " ", "w", "i", "t", "h", "o", "u", "t", " ", "p", "r", "e", "m", "i", "u", "m", " ", "n", "e", "t", "w", "o", "r", "k", "s">>, "298"),
       Entry(<<"L", "i", "m", "i", "t", "e", "d", " ", "p", "r", "e", "m", "i", "u", "m", " ", "a", "d", " ", "n", "e", "t", "w", "o", "r", "k", "s">>, "298"),
       Entry(<<"T", "i", "m", "e", "o", "u", "t", " ", "d", "u", "r", "i", "n", "g", " ", "a", "n", "a", "l", "y", "s", "i", "s">>, "298"),
       Entry(<<"U", "n", "a", "b", "l", "e", " ", "t", "o", " ", "a", "c", "c", "e", "s", "s", " ", "s", "i", "t", "e", " ", "c", "o", "n", "t", "e", "n", "t">>, "298"),
       Entry(<<"T", "e", "c", "h", "n", "i", "c", "a", "l", " ", "e", "r", "r", "o", "r", " ", "d", "u", "r", "i", "n", "g", " ", "a", "n", "a", "l", "y", "s", "i", "s">>, "298") >>

\* Default code for unknown reasons.
fallbackCode == "298"

getRejectionCodeNoFallback(failureReason) ==
    LET exact == {i \in 1..Len(rejectionMap) : rejectionMap[i].key = failureReason}
        partial == {i \in 1..Len(rejectionMap) : includes(failureReason, rejectionMap[i].key)}
    IN IF failureReason = <<>> THEN ""
       ELSE IF exact # {} THEN rejectionMap[CHOOSE i \in exact : TRUE].code
       ELSE IF partial # {} THEN rejectionMap[CHOOSE i \in partial : \A j \in partial : i <= j].code
       ELSE ""

\* if (!failureReason) return ''; the exact match; the first entry whose key the reason
\* includes; '298'.
getRejectionCode(failureReason) ==
    LET exact == {i \in 1..Len(rejectionMap) : rejectionMap[i].key = failureReason}
        partial == {i \in 1..Len(rejectionMap) : includes(failureReason, rejectionMap[i].key)}
    IN IF failureReason = <<>> THEN ""
       ELSE IF exact # {} THEN rejectionMap[CHOOSE i \in exact : TRUE].code
       ELSE IF partial # {} THEN rejectionMap[CHOOSE i \in partial : \A j \in partial : i <= j].code
       ELSE fallbackCode

ReasonExact == <<"L", "a", "c", "k", "i", "n", "g", " ", "4", " ", "m", "o", "n", "t", "h", "s", " ", "o", "r", " ", "r", "e", "c", "e", "n", "t", " ", "c", "o", "n", "t", "e", "n", "t">>

ReasonPartial == <<"E", "r", "r", "o", "r", ":", " ", "H", "a", "t", "e", " ", "s", "p", "e", "e", "c", "h", " ", "d", "e", "t", "e", "c", "t", "e", "d">>

ReasonTwoKeys == <<"N", "o", " ", "a", "d", " ", "a", "c", "t", "i", "v", "i", "t", "y", " ", "d", "e", "t", "e", "c", "t", "e", "d", ",", " ", "C", "o", "n", "t", "e", "n", "t", " ", "t", "o", "o", " ", "o", "l", "d">>

ReasonUnknown == <<"C", "h", "e", "c", "k", " ", "t", "i", "m", "e", "d", " ", "o", "u", "t">>

SampleReasons == {<<>>, ReasonExact, ReasonPartial, ReasonTwoKeys, ReasonUnknown}

(***************************************************************************)
(* The reasons of the 'fail' results that the checks return, by check, and *)
(* their spelling as sequences of characters.                              *)
(***************************************************************************)
PolicyFailures ==
    {"Banned TLD detected"}
        \cup {"Banned content detected (" \o bannedWords[ci].category \o ")" : ci \in 1..Len(bannedWords)}

RedirectFailures ==
    LET findings == {RedirectFinding(u, [status |-> s, location |-> l]) :
                        u \in ProbedURLs, s \in ProbeStatuses, l \in ProbeLocations}
    IN {f.reason : f \in {g \in findings : g.status = "fail"}}

HateSpeechFailures ==
    LET returned == {HateSpeechCheck(c, a) : c \in SampleContents, a \in [1..maxHateSpeechApiCalls -> SampleAnswers]}
    IN {r.reason : r \in {q \in returned : q.status = "fail"}}

ImageFailures == {r.reason : r \in {q \in ImageOutcomes : q.status = "fail"}}

Spell(reason) ==
    CASE reason = "Banned TLD detected" ->
           <<"B", "a", "n", "n", "e", "d", " ", "T", "L", "D", " ", "d", "e", "t", "e", "c", "t", "e", "d">>
      [] reason = "Banned content detected (adult)" ->
           <<"B", "a", "n", "n", "e", "d", " ", "c", "o", "n", "t", "e", "n", "t", " ", "d", "e", "t", "e", "c", "t", "e", "d", " ", "(", "a", "d", "u", "l", "t", ")">>
      [] reason = "Banned content detected (drugs)" ->
           <<"B", "a", "n", "n", "e", "d", " ", "c", "o", "n", "t", "e", "n", "t", " ", "d", "e", "t", "e", "c", "t", "e", "d", " ", "(", "d", "r", "u", "g", "s", ")">>
      [] reason = "Banned content detected (gambling)" ->
           <<"B", "a", "n", "n", "e", "d", " ", "c", "o", "n", "t", "e", "n", "t", " ", "d", "e", "t", "e", "c", "t", "e", "d", " ", "(", "g", "a", "m", "b", "l", "i", "n", "g", ")">>
      [] reason = "Banned content detected (weapons)" ->
           <<"B", "a", "n", "n", "e", "d", " ", "c", "o", "n", "t", "e", "n", "t", " ", "d", "e", "t", "e", "c", "t", "e", "d", " ", "(", "w", "e", "a", "p", "o", "n", "s", ")">>
      [] reason = "Banned content detected (punycode)" ->
           <<"B", "a", "n", "n", "e", "d", " ", "c", "o", "n", "t", "e", "n", "t", " ", "d", "e", "t", "e", "c", "t", "e", "d", " ", "(", "p", "u", "n", "y", "c", "o", "d", "e", ")">>
      [] reason = "Banned content detected (malicious)" ->
           <<"B", "a", "n", "n", "e", "d", " ", "c", "o", "n", "t", "e", "n", "t", " ", "d", "e", "t", "e", "c", "t", "e", "d", " ", "(", "m", "a", "l", "i", "c", "i", "o", "u", "s", ")">>
      [] reason = "External redirect" ->
           <<"E", "x", "t", "e", "r", "n", "a", "l", " ", "r", "e", "d", "i", "r", "e", "c", "t">>
      [] reason = "Problematic content detected" ->
           <<"P", "r", "o", "b", "l", "e", "m", "a", "t", "i", "c", " ", "c", "o", "n", "t", "e", "n", "t", " ", "d", "e", "t", "e", "c", "t", "e", "d">>
      [] reason = "Hate speech detected" ->
           <<"H", "a", "t", "e", " ", "s", "p", "e", "e", "c", "h", " ", "d", "e", "t", "e", "c", "t", "e", "d">>
      [] reason = "Inappropriate image content detected" ->
           <<"I", "n", "a", "p", "p", "r", "o", "p", "r", "i", "a", "t", "e", " ", "i", "m", "a", "g", "e", " ", "c", "o", "n", "t", "e", "n", "t", " ", "d", "e", "t", "e", "c", "t", "e", "d">>
      [] reason = "Limited premium ad networks" ->
           <<"L", "i", "m", "i", "t", "e", "d", " ", "p", "r", "e", "m", "i", "u", "m", " ", "a", "d", " ", "n", "e", "t", "w", "o", "r", "k", "s">>
      [] reason = "Ad activity without premium networks" ->
           <<"A", "d", " ", "a", "c", "t", "i", "v", "i", "t", "y", " ", "w", "i", "t", "h", "o", "u", "t", " ", "p", "r", "e", "m", "i", "u", "m", " ", "n", "e", "t", "w", "o", "r", "k", "s">>
      [] reason = "No ad activity detected" ->
           <<"N", "o", " ", "a", "d", " ", "a", "c", "t", "i", "v", "i", "t", "y", " ", "d", "e", "t", "e", "c", "t", "e", "d">>
      [] reason = "Unknown failure reason" ->
           <<"U", "n", "k", "n", "o", "w", "n", " ", "f", "a", "i", "l", "u", "r", "e", " ", "r", "e", "a", "s", "o", "n">>

FailureReasons == PolicyFailures \cup RedirectFailures \cup HateSpeechFailures \cup ImageFailures

(***************************************************************************)
(* SQLGenerator.generateSQLForAudit and the update of the sites table.     *)
(***************************************************************************)
\* The reason of the first check, in the order of results.checks, whose status is
\* 'fail' or 'failed'; a report has no phases and no reason of its own.
getFailureReason(auditResult) ==
    LET failedChecks == {i \in 1..Len(auditResult.checks) :
                            auditResult.checks[i].result.status \in {"fail", "failed"}}
    IN IF getOverallStatus(auditResult) = "passed" THEN ""
       ELSE IF failedChecks # {}
            THEN auditResult.checks[CHOOSE i \in failedChecks : \A j \in failedChecks : i <= j].result.reason
       ELSE "Unknown failure reason"

\* The UPDATE of the sites table: the new approval_state, the reject_reason_code it
\* sets ("" when it sets none) and the approval_state that its WHERE clause asks for.
Update(state, code, from) == [approval_state |-> state, reject_reason_code |-> code, where_state |-> from]

generateUpdateSQL(status, rejectionCode) ==
    IF status = "passed" THEN Update(92, "", 32) ELSE Update(2, rejectionCode, 32)

generateSQLForAudit(auditResult) ==
    LET overallStatus == getOverallStatus(auditResult)
        failureReason == getFailureReason(auditResult)
        rejectionCode == IF failureReason = "" THEN "" ELSE getRejectionCode(Spell(failureReason))
    IN [status |-> overallStatus, reason |-> failureReason, rejectionCode |-> rejectionCode,
        update |-> generateUpdateSQL(overallStatus, rejectionCode)]

\* db/sqlGenerator.js determineRejectionCode (a report has no rejection_code).
determineRejectionCode(auditResult) ==
    LET failed(name) == HasKey(auditResult.checks, name) /\ Lookup(auditResult.checks, name).status = "fail"
    IN IF failed("hateSpeech") THEN "201"
       ELSE IF failed("plagiarism") THEN "202"
       ELSE IF failed("images") THEN "203"
       ELSE IF failed("ads") THEN "204"
       ELSE IF auditResult.hasRecency /\ auditResult.contentRecency.status = "fail" THEN "205"
       ELSE "298"

\* db/sqlGenerator.js generateAuditResultSQL: the inserted status and reason and the
\* UPDATE that follows the INSERT.
generateAuditResultSQL(auditResult) ==
    [status |-> IF auditResult.status = "error" THEN "failed" ELSE auditResult.status,
     reason |-> IF auditResult.status = "error" THEN "Unknown failure reason" ELSE "",
     rejectionCode |-> determineRejectionCode(auditResult),
     update |-> Update(2, determineRejectionCode(auditResult), 32)]

(***************************************************************************)
(* db/database.js: transaction.                                            *)
(***************************************************************************)
\* How transaction settled: the statements it issued on the client, in order, with
\* the callback and the release among them, and what it returned or threw.
Settled(log, how, what) == [log |-> log, how |-> how, value |-> what]

\* The catch block, then finally: ROLLBACK on an acquired client, the error thrown
\* again (or the error of a failing ROLLBACK in its place), the client released.
Caught(log, error, acquired, answers) ==
    IF ~acquired THEN Settled(log, "thrown", error)
    ELSE IF answers.rollback
         THEN Settled(log \o <<"ROLLBACK", "release">>, "thrown", error)
         ELSE Settled(log \o <<"ROLLBACK", "release">>, "thrown", "ROLLBACK failed")

\* transaction(queriesOrCallback): answers tells which of connect, BEGIN, COMMIT and
\* ROLLBACK the database carries out; work is the argument: a function that resolves
\* or rejects, a string of queries that all succeed or not, or anything else.
transaction(work, answers) ==
    IF ~answers.connect THEN Caught(<<>>, "connect failed", FALSE, answers)
    ELSE IF ~answers.begin THEN Caught(<<"BEGIN">>, "BEGIN failed", TRUE, answers)
    ELSE IF work.kind = "other"
         THEN Caught(<<"BEGIN">>, "Invalid argument: expected a function or string", TRUE, answers)
    ELSE LET ran == IF work.kind = "function" THEN <<"BEGIN", "callback">> ELSE <<"BEGIN", "queries">>
         IN IF ~work.resolves THEN Caught(ran, work.error, TRUE, answers)
            ELSE IF ~answers.commit THEN Caught(ran \o <<"COMMIT">>, "COMMIT failed", TRUE, answers)
            ELSE Settled(ran \o <<"COMMIT", "release">>, "returned", work.value)

\* Arguments of transaction and answers of the database.
SampleWork ==
    { [error |-> "callback error", value |-> "callback value", kind |-> k, resolves |-> r] :
        k \in {"function", "string", "other"}, r \in BOOLEAN }

DatabaseAnswers ==
    { [rollback |-> r, connect |-> c, begin |-> b, commit |-> m] :
        c \in BOOLEAN, b \in BOOLEAN, m \in BOOLEAN, r \in BOOLEAN }

(***************************************************************************)
(* auditUrl: the handler of the page audit.                                *)
(***************************************************************************)
\* The awaited steps between the URL validation and the storing, in order.
AuditSteps ==
    << "launch", "newPage", "setViewport", "setUserAgent", "setExtraHTTPHeaders", "goto",
       "content", "screenshot", "analyzeImage", "title", "metaTags", "h1s", "h2s", "images", "links" >>

\* res.status(code).json({success, error | results})
Sent(code, kind) == [code |-> code, kind |-> kind]

\* A handler without the try around storeAuditResult: its rejection reaches the outer catch.
StoreErrorEscapes(storeSettled) == ~storeSettled

\* try { await storeAuditResult(...) } catch (dbError) { log }: nothing escapes.
StoreError(storeSettled) == FALSE

\* auditUrl(req, res) for req.params.url = urlString, when the step numbered failsAt
\* throws (0: none does) and storeAuditResult resolves or rejects.  steps are the
\* steps that were started, responses what was sent, closed what finally closed.
auditUrl(urlString, failsAt, storeSettled) ==
    IF ~ParseURL(urlString).ok
    THEN [steps |-> <<>>, responses |-> <<Sent(400, "Invalid URL provided")>>, closed |-> <<>>]
    ELSE LET steps == IF failsAt = 0 THEN AuditSteps \o <<"storeAuditResult">>
                      ELSE SubSeq(AuditSteps, 1, failsAt)
             closed == IF failsAt = 0 \/ failsAt > 2 THEN <<"page", "browser">>
                       ELSE IF failsAt = 2 THEN <<"browser">> ELSE <<>>
         IN IF failsAt > 0 \/ StoreError(storeSettled)
            THEN [steps |-> steps, responses |-> <<Sent(500, "Error during audit")>>, closed |-> closed]
            ELSE [steps |-> steps, responses |-> <<Sent(200, "audit results")>>, closed |-> closed]

\* Route parameters of the page audit.
AuditedURLs == {UrlClean, UrlBannedTLD, UrlNotAbsolute, LocNoHost}

(***************************************************************************)
(* imageAnalyzer.analyzeUrl.  A page is whether its HTML could be fetched  *)
(* and, per image it holds, what the classification call answers: "safe",  *)
(* "flagged", "unannotated" (no safeSearchAnnotation) or "failed".         *)
(***************************************************************************)
\* Default of MAX_IMAGE_API_CALLS.
maxImages == 4

\* extractImages: the images of the page, none when the fetch throws.
extractImages(page) == IF page.fetched THEN page.images ELSE <<>>

\* selectRandomImages: all of them when there are no more than count (the pages
\* modelled hold fewer images than maxImages).
selectRandomImages(images, count) ==
    IF Len(images) <= count THEN images ELSE SubSeq(images, 1, count)

\* analyzeImages: one entry per call that answered with an annotation or threw.
RECURSIVE analyzeImages(_)
analyzeImages(images) ==
    IF images = <<>> THEN <<>>
    ELSE (IF Head(images) = "unannotated" THEN <<>>
          ELSE IF Head(images) = "failed" THEN <<"error">>
          ELSE <<Head(images)>>) \o analyzeImages(Tail(images))

\* ImageAnalyzer.evaluateResults: 'fail' when an image is flagged, else 'pass'.
ImageEvaluate(analysed) ==
    IF \E i \in 1..Len(analysed) : analysed[i] = "flagged"
    THEN Result("fail", "Inappropriate image content detected")
    ELSE Result("pass", "No inappropriate images detected")

\* imageAnalyzer.analyzeUrl
ImageAnalyzeUrl(page) ==
    LET images == extractImages(page)
    IN IF Len(images) = 0 THEN Result("pass", "No images found to analyze")
       ELSE ImageEvaluate(analyzeImages(selectRandomImages(images, maxImages)))

\* Largest number of images on a page.
MaxImagesOnPage == 2

SamplePages ==
    { [images |-> i, fetched |-> f] :
        f \in BOOLEAN,
        i \in UNION {[1..n -> {"safe", "flagged", "unannotated", "failed"}] : n \in 0..MaxImagesOnPage} }

\* PlagiarismChecker.searchSimilarContent: the items of the answer, none when the
\* request throws.
searchSimilarContent(answer) == IF answer.failed THEN <<>> ELSE answer.items

SearchAnswers ==
    { [failed |-> f, items |-> s] :
        f \in BOOLEAN, s \in UNION {[1..n -> PageContents] : n \in 0..MaxResults} }

(***************************************************************************)
(* The browsers of the checks: HateSpeechChecker.extractContent,           *)
(* PlagiarismChecker.extractContent and AdAnalyzer.analyzeUrl.  Each is    *)
(* given the number failsAt of the awaited step that throws (0: none does) *)
(* and yields the events of its browser, ended by how the call ends.       *)
(***************************************************************************)
\* The awaited steps of either extractContent, up to the last page.evaluate.
ExtractSteps ==
    << "launch", "newPage", "setUserAgent", "setViewport", "setRequestInterception",
       "goto", "content", "$", "evaluate" >>

\* The awaited steps of AdAnalyzer.analyzeUrl before its browser.close().
AdSteps ==
    << "launch", "newPage", "goto", "delay", "autoScroll", "extractImageData", "findAdElements" >>

\* A handler that forgets its browser.
CloseNever(browser) == <<>>

\* if (browser) await browser.close()
CloseIfLaunched(browser) == IF browser THEN <<"close">> ELSE <<>>

\* try { browser = await this.launchBrowser(); ... return content }
\* catch (error) { throw error } finally { if (browser) await browser.close() }
HateSpeechExtractContent(content, failsAt) ==
    LET browser == failsAt # 1
    IN [events |-> (IF browser THEN <<"launch">> ELSE <<>>) \o CloseIfLaunched(browser)
                      \o <<IF failsAt = 0 THEN "return" ELSE "throw">>,
        outcome |-> IF failsAt = 0 THEN content ELSE "thrown"]

\* The same with the return of an error result when no Chrome executable was found.
PlagiarismExtractContent(content, failsAt, chromeExists) ==
    IF ~chromeExists THEN [events |-> <<"return">>, outcome |-> "Chrome not found"]
    ELSE LET browser == failsAt # 1
         IN [events |-> (IF browser THEN <<"launch">> ELSE <<>>) \o CloseIfLaunched(browser)
                           \o <<IF failsAt = 0 THEN "return" ELSE "throw">>,
             outcome |-> IF failsAt = 0 THEN content ELSE "thrown"]

\* try { browser = await puppeteer.launch(); ...; await browser.close();
\*       return this.analyzeAdData(...) }
\* catch (error) { if (browser) await browser.close(); return {status: "error", ...} }
AdAnalyzeUrl(failsAt) ==
    LET browser == failsAt # 1
        tried == IF failsAt = 0 THEN <<"launch", "close">>
                 ELSE IF browser THEN <<"launch">> ELSE <<>>
        caught == IF failsAt = 0 THEN <<>> ELSE CloseIfLaunched(browser)
    IN [events |-> tried \o caught \o <<"return">>,
        outcome |-> IF failsAt = 0 THEN "analyzeAdData" ELSE "Ad analysis failed"]

\* What a page yields as its content: nothing, or some text.
ExtractedContents == {"", "some text"}

(***************************************************************************)
(* db/database.js: the module variable pool, undefined until initPool()    *)
(* has run, across the first operations of a process.                      *)
(***************************************************************************)
\* A database that carries out everything it is asked.
DatabaseUp == [rollback |-> TRUE, connect |-> TRUE, begin |-> TRUE, commit |-> TRUE]

\* What pool.connect() throws when pool is undefined.
PoolUndefined == "TypeError: Cannot read properties of undefined (reading 'connect')"

\* query(text, params): if (!pool) pool = initPool(); await pool.query(text, params)
query(pool) == [settled |-> Settled(<<"initPool", "query">>, "returned", "rows"), pool |-> TRUE]

\* transaction(queriesOrCallback) on the pool as it is: client = await pool.connect()
transactionOn(pool, work) ==
    IF ~pool THEN [settled |-> Caught(<<>>, PoolUndefined, FALSE, DatabaseUp), pool |-> FALSE]
    ELSE [settled |-> transaction(work, DatabaseUp), pool |-> TRUE]

Operate(pool, operation, work) ==
    IF operation = "query" THEN query(pool) ELSE transactionOn(pool, work)

\* The first operations of a process, the pool undefined at its start.
Process(operations, work) ==
    LET first == Operate(FALSE, operations[1], work)
    IN IF Len(operations) = 1 THEN <<first>>
       ELSE <<first, Operate(first.pool, operations[2], work)>>

FirstOperations ==
    { <<"query">>, <<"transaction">>, <<"query", "transaction">>,
      <<"transaction", "query">>, <<"transaction", "transaction">> }

(***************************************************************************)
(* State.                                                                  *)
(***************************************************************************)
VARIABLES
    body,           \* req.body.url as received (<<>>: absent)
    pc,             \* where the request is: route, redirect, recency, concurrent, db, save, done
    results,        \* analyzeURL's results object
    redirectResult, \* analyzeURL's redirectResult (Pending until checkRedirect settles)
    started,      \* the checks that have been invoked
    runner,         \* per timed check: idle, running, done
    race,           \* per concurrent check: what its Promise.race settled to
    timers,         \* per timed check: the time its setTimeout fires, -1 when none can still act
    now,            \* milliseconds since analyzeURL was entered
    phaseStart,     \* the time phase 3 was entered
    verdict,        \* status and checks as computed by the aggregation
    stored,         \* the database has applied the audit's commands
    response,       \* what the route sent
    called,         \* the checker function applied on its own ("none" in an audit)
    input,          \* what it was applied to
    output,         \* what it returned
    audits,         \* per concurrent audit: its call of analyzeURL (<<>>: a single audit)
    tables,         \* the module-level tables the audits share
    fetches         \* one call of checkRecency: its requests and its evidence (<<>>: none)

vars == <<body, pc, results, redirectResult, started, runner, race, timers, now, phaseStart,
          verdict, stored, response, called, input, output, audits, tables, fetches>>

pipelineVars == <<body, pc, results, redirectResult, started, runner, race, timers, now, phaseStart,
                  verdict, stored, response>>

checkerVars == <<called, input, output>>

concurrentVars == <<audits, tables, fetches>>

NoResponse == [code |-> 0, kind |-> "none"]

NoVerdict == [computed |-> FALSE, status |-> "pending", checks |-> <<>>]

Init ==
    /\ body \in RequestURLs
    /\ pc = "route"
    /\ results = InitialResults
    /\ redirectResult = Pending
    /\ started = {}
    /\ runner = [n \in TimedNames |-> "idle"]
    /\ race = [n \in ConcurrentNames |-> Pending]
    /\ timers = [n \in TimedNames |-> -1]
    /\ now = 0
    /\ phaseStart = 0
    /\ verdict = NoVerdict
    /\ stored = FALSE
    /\ response = NoResponse
    /\ called = "none"
    /\ input = <<>>
    /\ output = <<>>
    /\ audits = <<>>
    /\ tables = <<>>
    /\ fetches = <<>>

\* return results; res.json(result)
Return(r) ==
    /\ results' = r
    /\ pc' = "done"
    /\ response' = [code |-> 200, kind |-> "report"]

\* if (bannedWordsResult) / if (redirectResult): a result object is truthy, null is not.
Truthy(result) == result.status # "null"

\* Phase 1 without its early return.
RedirectNeverShortCircuits(r) == FALSE

\* if (redirectResult && redirectResult.status === 'fail')
RedirectShortCircuits(r) == Truthy(r) /\ r.status = "fail"

\* router.post('/url') and analyzeURL up to its first await.
HandleRequest ==
    /\ pc = "route"
    /\ IF body = <<>>
       THEN /\ response' = [code |-> 400, kind |-> "missing url"]
            /\ pc' = "done"
            /\ UNCHANGED <<results, started>>
       ELSE LET bannedWordsResult == checkBannedWords(body)
            IN IF Truthy(bannedWordsResult)
               THEN /\ started' = started \cup {"bannedWords"}
                    /\ Return([results EXCEPT !.status = "fail",
                                              !.checks = SetCheck(@, "bannedWords", bannedWordsResult)])
               ELSE /\ started' = started \cup {"bannedWords", "redirect"}
                    /\ pc' = "redirect"
                    /\ UNCHANGED <<results, response>>
    /\ UNCHANGED <<body, redirectResult, runner, race, timers, now, phaseStart, verdict, stored>>
    /\ UNCHANGED <<checkerVars, concurrentVars>>

\* Phase 1 after checkRedirect has settled, then the start of phase 2.
RedirectSettled ==
    /\ pc = "redirect"
    /\ redirectResult' \in RedirectOutcomes(body)
    /\ LET settled == redirectResult'
       IN IF RedirectShortCircuits(settled)
          THEN /\ Return([results EXCEPT !.status = "fail",
                                         !.checks = SetCheck(@, "redirect", settled)])
               /\ UNCHANGED <<started, runner, timers>>
          ELSE /\ results' = IF Truthy(settled)
                             THEN [results EXCEPT !.checks = SetCheck(@, "redirect", settled)]
                             ELSE results
               /\ pc' = "recency"
               /\ started' = started \cup {"contentRecency"}
               /\ runner' = [runner EXCEPT !["contentRecency"] = "running"]
               /\ timers' = [timers EXCEPT !["contentRecency"] = now + RecencyTimeoutMs]
               /\ UNCHANGED response
    /\ UNCHANGED <<body, race, now, phaseStart, verdict, stored>>
    /\ UNCHANGED <<checkerVars, concurrentVars>>

\* results.contentRecency and the status floor set in phase 2.
RecordRecency(r, contentRecencyResult) ==
    [r EXCEPT !.contentRecency = contentRecencyResult,
              !.hasRecency = TRUE,
              !.status = IF Truthy(contentRecencyResult) /\ contentRecencyResult.status = "fail"
                         THEN "fail"
                         ELSE IF Truthy(contentRecencyResult) /\ contentRecencyResult.status = "review"
                              THEN (IF @ # "fail" THEN "review" ELSE @)
                              ELSE @]

\* A catch that only logs: no recency result is written.
RecordRecencyErrorDropped(r, errorResult) == r

\* The catch of phase 2 (the race rejected).
RecordRecencyError(r, errorResult) ==
    [r EXCEPT !.contentRecency = errorResult, !.hasRecency = TRUE]

\* Phase 3 starts: every runner is called and every timer is set.
LaunchConcurrent(timersNow, runnerNow) ==
    /\ pc' = "concurrent"
    /\ started' = started \cup ConcurrentNames
    /\ runner' = [n \in TimedNames |-> IF n \in ConcurrentNames THEN "running" ELSE runnerNow[n]]
    /\ timers' = [n \in TimedNames |-> IF n \in ConcurrentNames THEN now + TimeoutOf(n) ELSE timersNow[n]]
    /\ race' = [n \in ConcurrentNames |-> Pending]
    /\ phaseStart' = now

\* checkRecency resolved before its timer fired.
RecencySettled ==
    /\ pc = "recency"
    /\ runner["contentRecency"] = "running"
    /\ \E contentRecencyResult \in RecencyOutcomes(body) :
          results' = RecordRecency(results, contentRecencyResult)
    /\ LaunchConcurrent([timers EXCEPT !["contentRecency"] = -1],
                        [runner EXCEPT !["contentRecency"] = "done"])
    /\ UNCHANGED <<body, redirectResult, now, verdict, stored, response>>
    /\ UNCHANGED <<checkerVars, concurrentVars>>

\* A setTimeout whose callback never runs.
TimerNeverDue(name) == FALSE

\* The delay of the check's setTimeout has elapsed.
TimerDue(name) == timers[name] >= 0 /\ now >= timers[name]

\* The 30 second timer fired before checkRecency resolved.
RecencyTimeout ==
    /\ pc = "recency"
    /\ TimerDue("contentRecency")
    /\ results' = RecordRecencyError(results, RecencyTimedOut)
    /\ LaunchConcurrent([timers EXCEPT !["contentRecency"] = -1], runner)
    /\ UNCHANGED <<body, redirectResult, now, verdict, stored, response>>
    /\ UNCHANGED <<checkerVars, concurrentVars>>

\* A promise that takes every resolution: the last of runner and timer wins.
SettleRaceLastWins(r, name, value) == [r EXCEPT ![name] = value]

\* A settled promise ignores later resolutions: the first of runner and timer wins.
SettleRace(r, name, value) == IF r[name] = Pending THEN [r EXCEPT ![name] = value] ELSE r

\* A runner of phase 3 returns or throws.  The timer of a settled race is never
\* cleared, but its callback can no longer change anything: it leaves timers.
RunnerSettles(name) ==
    /\ name \in ConcurrentNames
    /\ runner[name] = "running"
    /\ \E value \in RunnerOutcomes(name, body) :
          race' = SettleRace(race, name, value)
    /\ runner' = [runner EXCEPT ![name] = "done"]
    /\ timers' = [timers EXCEPT ![name] = -1]
    /\ UNCHANGED <<body, redirectResult, pc, results, started, now, phaseStart, verdict, stored, response>>
    /\ UNCHANGED <<checkerVars, concurrentVars>>

\* checkRecency resolves after its timer has already rejected the race.
RecencyRunnerLate ==
    /\ pc # "recency"
    /\ runner["contentRecency"] = "running"
    /\ runner' = [runner EXCEPT !["contentRecency"] = "done"]
    /\ UNCHANGED <<body, redirectResult, pc, results, started, race, timers, now, phaseStart, verdict, stored, response>>
    /\ UNCHANGED <<checkerVars, concurrentVars>>

\* The setTimeout callback of a phase 3 check runs before its runner has settled.
TimerFires(name) ==
    /\ name \in ConcurrentNames
    /\ TimerDue(name)
    /\ timers' = [timers EXCEPT ![name] = -1]
    /\ race' = SettleRace(race, name, TimedOut(name))
    /\ UNCHANGED <<body, redirectResult, pc, results, started, runner, now, phaseStart, verdict, stored, response>>
    /\ UNCHANGED <<checkerVars, concurrentVars>>

\* Time passes up to the next pending timer; a due timer fires before time moves on.
Advance ==
    /\ \E n \in TimedNames : timers[n] >= 0
    /\ \A n \in TimedNames : timers[n] >= 0 => timers[n] > now
    /\ now' = CHOOSE t \in {timers[n] : n \in {m \in TimedNames : timers[m] >= 0}} :
                  \A n \in TimedNames : timers[n] >= 0 => t <= timers[n]
    /\ UNCHANGED <<body, redirectResult, pc, results, started, runner, race, timers, phaseStart, verdict, stored, response>>
    /\ UNCHANGED <<checkerVars, concurrentVars>>

\* Promise.race in place of Promise.allSettled: the first settled check resumes.
AnySettled(r) == \E n \in ConcurrentNames : r[n] # Pending

\* Promise.allSettled(checkPromises) has resolved.
AllSettled(r) == \A n \in ConcurrentNames : r[n] # Pending

\* The continuation after allSettled: record, aggregate, generate the commands.
Aggregate ==
    /\ pc = "concurrent"
    /\ AllSettled(race)
    /\ LET checks == RecordSettled(results.checks, race, 1)
           aggregated == [results EXCEPT !.checks = checks,
                                         !.status = OverallStatus(checks, results.status)]
       IN /\ verdict' = [computed |-> TRUE, status |-> aggregated.status, checks |-> aggregated.checks]
          /\ \E generated \in BOOLEAN :
                IF generated
                THEN /\ results' = aggregated
                     /\ pc' = "db"
                     /\ UNCHANGED response
                ELSE Return(StorageFailed(aggregated))
    /\ UNCHANGED <<body, redirectResult, started, runner, race, timers, now, phaseStart, stored>>
    /\ UNCHANGED <<checkerVars, concurrentVars>>

\* db.query(sqlResult.sql.transaction) settles.
DbSettled ==
    /\ pc = "db"
    /\ \E applied \in BOOLEAN, saveSqlToFile \in BOOLEAN :
          /\ stored' = applied
          /\ IF ~applied THEN Return(StorageFailed(results))
             ELSE IF saveSqlToFile
                  THEN /\ pc' = "save"
                       /\ UNCHANGED <<results, response>>
                  ELSE Return(StorageSucceeded(results))
    /\ UNCHANGED <<body, redirectResult, started, runner, race, timers, now, phaseStart, verdict>>
    /\ UNCHANGED <<checkerVars, concurrentVars>>

\* sqlGenerator.saveToFile settles.
SaveSettled ==
    /\ pc = "save"
    /\ \E saved \in BOOLEAN :
          IF saved THEN Return(StorageSucceeded(results)) ELSE Return(StorageFailed(results))
    /\ UNCHANGED <<body, redirectResult, started, runner, race, timers, now, phaseStart, verdict, stored>>
    /\ UNCHANGED <<checkerVars, concurrentVars>>

Next ==
    \/ HandleRequest
    \/ RedirectSettled
    \/ RecencySettled
    \/ RecencyTimeout
    \/ \E name \in ConcurrentNames : RunnerSettles(name)
    \/ RecencyRunnerLate
    \/ \E name \in ConcurrentNames : TimerFires(name)
    \/ Advance
    \/ Aggregate
    \/ DbSettled
    \/ SaveSettled

Spec == Init /\ [][Next]_vars

\* Timers fire and time passes, continuations run, and the database and the file
\* system answer; nothing obliges a check's own collaborators to answer.
Scheduled ==
    \/ Advance
    \/ \E name \in ConcurrentNames : TimerFires(name)
    \/ RecencyTimeout
    \/ Aggregate
    \/ DbSettled
    \/ SaveSettled

\* Audits of the static site, under the fairness above.
StaticInit == Init /\ body = UrlStatic

FairSpec == StaticInit /\ [][Next]_vars /\ WF_vars(Scheduled)

(***************************************************************************)
(* The checkers' functions applied on their own, outside an audit.         *)
(***************************************************************************)
\* Largest count of one kind of ad signal.
MaxCount == 2

\* One application: the function's name, its arguments and what it returned.
Apply(name, arguments, returned) ==
    /\ pc = "route"
    /\ called = "none"
    /\ called' = name
    /\ input' = arguments
    /\ output' = returned
    /\ UNCHANGED <<pipelineVars, concurrentVars>>

\* adAnalyzer.analyzeAdData on a page with the given numbers of signals.
ApplyAnalyzeAdData ==
    \E n \in 0..MaxCount, t \in 0..MaxCount, a \in 0..MaxCount, e \in 0..MaxCount :
        Apply("analyzeAdData",
              [networks |-> n, trackingPixels |-> t, adCreatives |-> a, adElements |-> e],
              analyzeAdData(n, t, a, e))

\* contentRecencyChecker.evaluateDates on a non-empty list of dates.
ApplyEvaluateDates ==
    \E dates \in DateLists : Apply("evaluateDates", dates, evaluateDates(dates))

\* contentRecencyChecker.checkRecency on a site.
ApplyCheckRecency ==
    \E urlOk \in BOOLEAN, site \in Sites :
        Apply("checkRecency", [site |-> site, urlOk |-> urlOk], checkRecency(urlOk, site))

ApplyCalculateSimilarity ==
    \E str1 \in SampleTexts, str2 \in SampleTexts :
        Apply("calculateSimilarity", [str1 |-> str1, str2 |-> str2], calculateSimilarity(str1, str2))

ApplyCheckParagraphs ==
    \E paragraphs \in UNION {[1..n -> SampleParagraphs] : n \in 1..MaxParagraphs} :
        Apply("checkParagraphs", paragraphs, PlagiarismCheck(paragraphs))

ApplyHateSpeechCheck ==
    \E content \in SampleContents, answers \in [1..maxHateSpeechApiCalls -> SampleAnswers] :
        Apply("checkContent", [content |-> content, answers |-> answers], HateSpeechCheck(content, answers))

ApplyAnalyzeTextChunks ==
    \E chunks \in SampleChunks, answers \in [1..maxHateSpeechApiCalls -> SampleAnswers] :
        Apply("analyzeTextChunks", [chunks |-> chunks, answers |-> answers], AnalysisResult(chunks, answers))

ApplyCheckRedirect ==
    \E urlString \in ProbedURLs, status \in ProbeStatuses, location \in ProbeLocations :
        Apply("checkRedirect", [status |-> status, location |-> location, urlString |-> urlString],
              RedirectFinding(urlString, [status |-> status, location |-> location]))

ApplyGetRejectionCode ==
    \E failureReason \in SampleReasons \cup {Spell(r) : r \in FailureReasons} :
        Apply("getRejectionCode", failureReason, getRejectionCode(failureReason))

\* Reports as analyzeURL has them when it generates the commands: a redirect entry
\* unless the probe found nothing, the recency result, the four settled checks and
\* the aggregated status.
ReportOf(redirect, recency, settled) ==
    LET afterRedirect == IF Truthy(redirect)
                         THEN [InitialResults EXCEPT !.checks = SetCheck(@, "redirect", redirect)]
                         ELSE InitialResults
        afterRecency == RecordRecency(afterRedirect, recency)
        checks == RecordSettled(afterRecency.checks, settled, 1)
    IN [afterRecency EXCEPT !.checks = checks, !.status = OverallStatus(checks, afterRecency.status)]

SampleReports ==
    {ReportOf(redirect, recency, settled) :
        redirect \in {NullResult, Result("review", "Redirect without destination")},
        recency \in {Result("pass", "Content meets recency and historical requirements"),
                     Result("fail", "Lacking 4 months or recent content")},
        settled \in {[hateSpeech |-> h, plagiarism |-> p, images |-> i, ads |-> a] :
                        h \in RunnerOutcomes("hateSpeech", UrlClean) \cup {TimedOut("hateSpeech")},
                        p \in RunnerOutcomes("plagiarism", UrlClean),
                        i \in RunnerOutcomes("images", UrlClean),
                        a \in RunnerOutcomes("ads", UrlClean)} }

ApplyGenerateSQLForAudit ==
    \E auditResult \in SampleReports :
        Apply("generateSQLForAudit", auditResult, generateSQLForAudit(auditResult))

ApplyGenerateAuditResultSQL ==
    \E auditResult \in SampleReports :
        Apply("generateAuditResultSQL", auditResult, generateAuditResultSQL(auditResult))

ApplyTransaction ==
    \E work \in SampleWork, answers \in DatabaseAnswers :
        Apply("transaction", [answers |-> answers, work |-> work], transaction(work, answers))

ApplyAuditUrl ==
    \E urlString \in AuditedURLs, failsAt \in 0..Len(AuditSteps), storeSettled \in BOOLEAN :
        Apply("auditUrl", [urlString |-> urlString, storeSettled |-> storeSettled, failsAt |-> failsAt],
              auditUrl(urlString, failsAt, storeSettled))

ApplyImageAnalyzeUrl ==
    \E page \in SamplePages : Apply("analyzeUrl", page, ImageAnalyzeUrl(page))

\* plagiarismChecker's pass over one paragraph whose search answers as given.
ApplySearchSimilarContent ==
    \E paragraph \in ParagraphTexts, answer \in SearchAnswers :
        Apply("searchSimilarContent", [paragraph |-> paragraph, answer |-> answer],
              PlagiarismCheck(<<[paragraph |-> paragraph, searchResults |-> searchSimilarContent(answer),
                                 threw |-> FALSE]>>))

\* URLs for the scan of the banned terms.
ScannedURLs ==
    { UrlClean, UrlBannedHost, UrlBannedPath, UrlBannedTLD, UrlBannedTLDUpper, UrlBannedQuery,
      UrlNotAbsolute, UrlHostLater, UrlPathLater, UrlTLDAndWord, UrlTwoCategories }

ApplyCheckBannedWords ==
    \E urlString \in ScannedURLs : Apply("checkBannedWords", urlString, BannedFinding(urlString))

\* contentRecencyChecker.evaluateDates on a list of dates and on the list with one more date.
ApplyEvaluateDatesTwice ==
    \E dates \in DateLists, added \in SampleDates :
        Apply("evaluateDates twice", [dates |-> dates, added |-> added],
              [alone |-> evaluateDates(dates).status,
               together |-> evaluateDates(Append(dates, added)).status])

ApplyHateSpeechExtractContent ==
    \E content \in ExtractedContents, failsAt \in 0..Len(ExtractSteps) :
        Apply("HateSpeechChecker.extractContent", [content |-> content, failsAt |-> failsAt],
              HateSpeechExtractContent(content, failsAt))

ApplyPlagiarismExtractContent ==
    \E content \in ExtractedContents, failsAt \in 0..Len(ExtractSteps), chromeExists \in BOOLEAN :
        Apply("PlagiarismChecker.extractContent",
              [content |-> content, failsAt |-> failsAt, chromeExists |-> chromeExists],
              PlagiarismExtractContent(content, failsAt, chromeExists))

ApplyAdAnalyzeUrl ==
    \E failsAt \in 0..Len(AdSteps) :
        Apply("AdAnalyzer.analyzeUrl", [failsAt |-> failsAt], AdAnalyzeUrl(failsAt))

ApplyDatabase ==
    \E operations \in FirstOperations, work \in SampleWork :
        Apply("database", [work |-> work, operations |-> operations], Process(operations, work))

CheckerInit == Init /\ body = <<>>

CheckerNext ==
    \/ ApplyAnalyzeAdData
    \/ ApplyEvaluateDates
    \/ ApplyCheckRecency
    \/ ApplyCalculateSimilarity
    \/ ApplyCheckParagraphs
    \/ ApplyHateSpeechCheck
    \/ ApplyAnalyzeTextChunks
    \/ ApplyCheckRedirect
    \/ ApplyGetRejectionCode
    \/ ApplyGenerateSQLForAudit
    \/ ApplyGenerateAuditResultSQL
    \/ ApplyTransaction
    \/ ApplyAuditUrl
    \/ ApplyImageAnalyzeUrl
    \/ ApplySearchSimilarContent
    \/ ApplyCheckBannedWords
    \/ ApplyEvaluateDatesTwice
    \/ ApplyHateSpeechExtractContent
    \/ ApplyPlagiarismExtractContent
    \/ ApplyAdAnalyzeUrl
    \/ ApplyDatabase

CheckerSpec == CheckerInit /\ [][CheckerNext]_vars

(***************************************************************************)
(* Several calls of analyzeURL in flight at once.  Each call has its own   *)
(* results object and its own promises; the tables of sqlGenerator and     *)
(* bannedWords are module-level objects every call reads.                  *)
(***************************************************************************)
AuditIds == {1, 2}

\* The URLs of the concurrent audits: one that phase 0 rejects, one that goes on.
ConcurrentURLs == {UrlBannedTLD, UrlClean}

\* What the collaborators answer to a concurrent audit.
RedirectAnswers(urlString) ==
    {ClassifyRedirect(urlString, r) :
        r \in {[status |-> 200, location |-> <<>>], [status |-> 301, location |-> LocOtherHost]}}

RecencyAnswers ==
    {Result("pass", "Content meets recency and historical requirements"),
     Result("fail", "Lacking 4 months or recent content")}

RunnerAnswers(name) ==
    CASE name = "hateSpeech" -> {Result("pass", "No hate speech detected"), TimedOut(name)}
      [] name = "plagiarism" -> {PlagiarismEvaluate(<<"pass">>)}
      [] name = "images" -> {Result("pass", "No inappropriate images detected")}
      [] name = "ads" -> {analyzeAdData(1, 1, 0, 0), analyzeAdData(0, 0, 0, 0)}

\* The collaborators' answers an audit has received so far.
NothingHeard ==
    [redirect |-> Pending, recency |-> Pending, settled |-> [n \in ConcurrentNames |-> Pending],
     stored |-> "pending"]

\* The tables as built when the modules are loaded.
LoadedTables == [rejectionMap |-> rejectionMap, bannedWords |-> bannedWords, bannedTLDs |-> bannedTLDs]

\* One call of analyzeURL(url) at its entry.
NewAudit(urlString) ==
    [results |-> InitialResults, url |-> urlString, pc |-> "route", race |-> [n \in ConcurrentNames |-> Pending],
     heard |-> NothingHeard]

ConcurrentInit ==
    /\ body = <<>>
    /\ pc = "route"
    /\ results = InitialResults
    /\ redirectResult = Pending
    /\ started = {}
    /\ runner = [n \in TimedNames |-> "idle"]
    /\ race = [n \in ConcurrentNames |-> Pending]
    /\ timers = [n \in TimedNames |-> -1]
    /\ now = 0
    /\ phaseStart = 0
    /\ verdict = NoVerdict
    /\ stored = FALSE
    /\ response = NoResponse
    /\ called = "none"
    /\ input = <<>>
    /\ output = <<>>
    /\ audits \in [AuditIds -> {NewAudit(u) : u \in ConcurrentURLs}]
    /\ tables = LoadedTables
    /\ fetches = <<>>

\* A results object shared by every call (a module-level variable).
WriteReportShared(all, a, r) == [b \in DOMAIN all |-> [all[b] EXCEPT !.results = r]]

\* const results = {...} is local to the call: a write reaches this audit's report only.
WriteReport(all, a, r) == [all EXCEPT ![a].results = r]

\* One step of audit a: its report, its position and its own promises.
Step(a, r, position, settled, answers) ==
    /\ audits' = [WriteReport(audits, a, r) EXCEPT ![a].pc = position,
                                                   ![a].race = settled,
                                                   ![a].heard = answers]
    /\ UNCHANGED <<pipelineVars, checkerVars, tables, fetches>>

\* Phase 0 of audit a.
AuditStarts(a) ==
    LET me == audits[a]
        bannedWordsResult == checkBannedWords(me.url)
    IN /\ me.pc = "route"
       /\ IF Truthy(bannedWordsResult)
          THEN Step(a, [me.results EXCEPT !.status = "fail",
                                          !.checks = SetCheck(@, "bannedWords", bannedWordsResult)],
                    "done", me.race, me.heard)
          ELSE Step(a, me.results, "redirect", me.race, me.heard)

\* Phase 1 of audit a: its probe is answered.
AuditRedirectSettled(a) ==
    LET me == audits[a]
    IN /\ me.pc = "redirect"
       /\ \E settled \in RedirectAnswers(me.url) :
             LET answers == [me.heard EXCEPT !.redirect = settled]
             IN IF RedirectShortCircuits(settled)
                THEN Step(a, [me.results EXCEPT !.status = "fail",
                                                !.checks = SetCheck(@, "redirect", settled)],
                          "done", me.race, answers)
                ELSE Step(a, IF Truthy(settled)
                             THEN [me.results EXCEPT !.checks = SetCheck(@, "redirect", settled)]
                             ELSE me.results,
                          "recency", me.race, answers)

\* Phase 2 of audit a: its recency check resolves, or its 30 second timer fires.
AuditRecencySettled(a) ==
    LET me == audits[a]
    IN /\ me.pc = "recency"
       /\ \/ \E contentRecencyResult \in RecencyAnswers :
                Step(a, RecordRecency(me.results, contentRecencyResult), "concurrent", me.race,
                     [me.heard EXCEPT !.recency = contentRecencyResult])
          \/ Step(a, RecordRecencyError(me.results, RecencyTimedOut), "concurrent", me.race,
                  [me.heard EXCEPT !.recency = RecencyTimedOut])

\* One of audit a's four races settles.
AuditCheckSettles(a, name) ==
    LET me == audits[a]
    IN /\ me.pc = "concurrent"
       /\ me.race[name] = Pending
       /\ \E value \in RunnerAnswers(name) :
             Step(a, me.results, "concurrent", SettleRace(me.race, name, value),
                  [me.heard EXCEPT !.settled[name] = value])

\* Audit a's allSettled continuation: record and aggregate.
AuditAggregates(a) ==
    LET me == audits[a]
        checks == RecordSettled(me.results.checks, me.race, 1)
    IN /\ me.pc = "concurrent"
       /\ AllSettled(me.race)
       /\ Step(a, [me.results EXCEPT !.checks = checks,
                                     !.status = OverallStatus(checks, me.results.status)],
               "db", me.race, me.heard)

\* Audit a's db.query settles and the report is returned.
AuditStored(a) ==
    LET me == audits[a]
    IN /\ me.pc = "db"
       /\ \/ Step(a, StorageSucceeded(me.results), "done", me.race, [me.heard EXCEPT !.stored = "ok"])
          \/ Step(a, StorageFailed(me.results), "done", me.race, [me.heard EXCEPT !.stored = "failed"])

ConcurrentNext ==
    \E a \in AuditIds :
        \/ AuditStarts(a)
        \/ AuditRedirectSettled(a)
        \/ AuditRecencySettled(a)
        \/ \E name \in ConcurrentNames : AuditCheckSettles(a, name)
        \/ AuditAggregates(a)
        \/ AuditStored(a)

ConcurrentSpec == ConcurrentInit /\ [][ConcurrentNext]_vars

\* checkBannedWords is a function of the URL alone: its result per audited URL.
PhaseZero == [u \in ConcurrentURLs |-> checkBannedWords(u)]

\* The report analyzeURL(url) returns when it is alone, from the answers it received.
ReportAlone(urlString, answers) ==
    IF Truthy(PhaseZero[urlString])
    THEN [InitialResults EXCEPT !.status = "fail",
                                !.checks = SetCheck(@, "bannedWords", PhaseZero[urlString])]
    ELSE IF RedirectShortCircuits(answers.redirect)
    THEN [InitialResults EXCEPT !.status = "fail",
                                !.checks = SetCheck(@, "redirect", answers.redirect)]
    ELSE IF answers.stored = "ok"
    THEN StorageSucceeded(ReportOf(answers.redirect, answers.recency, answers.settled))
    ELSE StorageFailed(ReportOf(answers.redirect, answers.recency, answers.settled))

(***************************************************************************)
(* contentRecencyChecker.checkRecency, request by request.                 *)
(***************************************************************************)
\* The additional pages of one call (the first ones of the list).
ProbedPaths == SubSeq(additionalPaths, 1, MaxPaths + 1)

\* What a location of the audited site yields: site maps may hold an old and a fresh
\* date, the other locations one date or none.
FetchedSites ==
    { p @@ f @@ m @@ a :
        p \in [Range(primarySitemapPaths) -> SourceYields],
        f \in [Range(FallbackPaths) -> {<<>>, <<OldDate>>, <<FreshDate>>}],
        m \in [{MainPage} -> {<<>>, <<OldDate>>, <<FreshDate>>}],
        a \in [Range(ProbedPaths) -> {<<>>, <<OldDate>>, <<FreshDate>>}] }

FetchedLocations == Range(primarySitemapPaths) \cup Range(FallbackPaths) \cup {MainPage} \cup Range(ProbedPaths)

\* await taken as done as soon as one of the promises has settled.
AwaitedFirst(asked, paths) == \E i \in 1..Len(paths) : asked[paths[i]] = "settled"

\* await Promise.all(promises): every request of the group has settled.
Awaited(asked, paths) == \A i \in 1..Len(paths) : asked[paths[i]] = "settled"

\* paths.map(path => this.checkSingleSitemap(...)): every request of the group is issued.
Issue(asked, paths) ==
    [l \in FetchedLocations |-> IF \E i \in 1..Len(paths) : paths[i] = l THEN "asked" ELSE asked[l]]

\* The call at its entry, for a site.
NewCheck(site) ==
    [result |-> Pending, site |-> site, asked |-> [l \in FetchedLocations |-> "idle"],
     position |-> "entry", allDates |-> <<>>, earlyExit |-> [l \in FetchedLocations |-> FALSE]]

RecencyInit ==
    /\ body = <<>>
    /\ pc = "route"
    /\ results = InitialResults
    /\ redirectResult = Pending
    /\ started = {}
    /\ runner = [n \in TimedNames |-> "idle"]
    /\ race = [n \in ConcurrentNames |-> Pending]
    /\ timers = [n \in TimedNames |-> -1]
    /\ now = 0
    /\ phaseStart = 0
    /\ verdict = NoVerdict
    /\ stored = FALSE
    /\ response = NoResponse
    /\ called = "none"
    /\ input = <<>>
    /\ output = <<>>
    /\ audits = <<>>
    /\ tables = <<>>
    /\ fetches \in {NewCheck(site) : site \in FetchedSites}

Fetch(next) ==
    /\ fetches' = next
    /\ UNCHANGED <<pipelineVars, checkerVars, audits, tables>>

\* return { ...evaluation, ... }
Returned(dates) == Result(evaluateDates(dates).status, evaluateDates(dates).reason)

\* Step 1: the primary site maps are requested, all at once.
CheckRecencyCalled ==
    /\ fetches.position = "entry"
    /\ Fetch([fetches EXCEPT !.position = "primary", !.asked = Issue(@, primarySitemapPaths)])

\* A callback that replaces the pool by its own dates.
AccumulateOverwrites(allDates, dates) == dates

\* allDates = [...allDates, ...dates]
Accumulate(allDates, dates) == allDates \o dates

\* The then-callback of one site map request (a failed request yields no dates).
SitemapSettles(path) ==
    LET dates == fetches.site[path]
        grown == Accumulate(fetches.allDates, dates)
    IN /\ fetches.position \in {"primary", "fallback"}
       /\ fetches.asked[path] = "asked"
       /\ IF fetches.position = "primary"
          THEN IF Passes(dates)
               THEN Fetch([fetches EXCEPT !.asked[path] = "settled", !.earlyExit[path] = TRUE])
               ELSE Fetch([fetches EXCEPT !.asked[path] = "settled", !.allDates = grown])
          ELSE Fetch([fetches EXCEPT !.asked[path] = "settled", !.allDates = grown,
                                     !.earlyExit[path] = dates # <<>> /\ Passes(grown)])

\* After await Promise.all(primarySitemapPromises).
PrimariesAwaited ==
    /\ fetches.position = "primary"
    /\ Awaited(fetches.asked, primarySitemapPaths)
    /\ IF \E i \in 1..Len(primarySitemapPaths) : fetches.earlyExit[primarySitemapPaths[i]]
       THEN Fetch([fetches EXCEPT !.position = "returned",
                                  !.result = Result("pass", "Content meets recency and historical requirements")])
       ELSE IF Passes(fetches.allDates)
       THEN Fetch([fetches EXCEPT !.position = "returned", !.result = Returned(fetches.allDates)])
       ELSE Fetch([fetches EXCEPT !.position = "fallback", !.asked = Issue(@, FallbackPaths)])

\* After await Promise.all(fallbackSitemapPromises); then the page itself is fetched.
FallbacksAwaited ==
    /\ fetches.position = "fallback"
    /\ Awaited(fetches.asked, FallbackPaths)
    /\ IF \E i \in 1..Len(FallbackPaths) : fetches.earlyExit[FallbackPaths[i]]
       THEN Fetch([fetches EXCEPT !.position = "returned",
                                  !.result = Result("pass", "Content meets recency and historical requirements")])
       ELSE Fetch([fetches EXCEPT !.position = "page", !.asked = Issue(@, <<MainPage>>)])

\* The additional page to fetch next (0: none is left).
NextProbe(asked) ==
    IF \E i \in 1..Len(ProbedPaths) : asked[ProbedPaths[i]] = "idle"
    THEN CHOOSE i \in 1..Len(ProbedPaths) :
             asked[ProbedPaths[i]] = "idle" /\ \A j \in 1..(i - 1) : asked[ProbedPaths[j]] # "idle"
    ELSE 0

\* extractDatesFromHtml settles, for the page itself or for an additional page: return
\* when the dates it added make the rule pass, else go on to the next additional page,
\* and evaluate what was collected when none is left.
PageSettles(path) ==
    LET dates == fetches.site[path]
        grown == Accumulate(fetches.allDates, dates)
        settled == [fetches.asked EXCEPT ![path] = "settled"]
        i == NextProbe(settled)
    IN /\ fetches.position = "page"
       /\ fetches.asked[path] = "asked"
       /\ IF dates # <<>> /\ Passes(grown)
          THEN Fetch([fetches EXCEPT !.asked = settled, !.allDates = grown,
                                     !.position = "returned", !.result = Returned(grown)])
          ELSE IF i > 0
          THEN Fetch([fetches EXCEPT !.asked = Issue(settled, <<ProbedPaths[i]>>), !.allDates = grown])
          ELSE Fetch([fetches EXCEPT !.asked = settled, !.allDates = grown, !.position = "returned",
                                     !.result = IF grown # <<>> THEN Returned(grown)
                                                ELSE Result("fail", "No dates found in any source")])

RecencyNext ==
    \/ CheckRecencyCalled
    \/ \E path \in Range(primarySitemapPaths) \cup Range(FallbackPaths) : SitemapSettles(path)
    \/ PrimariesAwaited
    \/ FallbacksAwaited
    \/ \E path \in {MainPage} \cup Range(ProbedPaths) : PageSettles(path)

RecencySpec == RecencyInit /\ [][RecencyNext]_vars

(***************************************************************************)
(* Properties.                                                             *)
(***************************************************************************)
OkReport == [code |-> 200, kind |-> "report"]

\* C1: a URL whose hostname or path contains a banned term, or whose hostname's last
\* label is a banned TLD, gets a 'fail' report whose checks hold the bannedWords
\* result and nothing else, and no redirect probe, recency evaluation or concurrent
\* check is ever started.
C1_PolicyShortCircuit ==
    LET url == ParseURL(body)
        term(ci, wi) == bannedWords[ci].wordList[wi]
        hasBannedTerm == \E ci \in 1..Len(bannedWords) : \E wi \in 1..Len(bannedWords[ci].wordList) :
                            \/ includes(url.hostname, term(ci, wi))
                            \/ includes(toLowerCase(url.pathname), term(ci, wi))
        onBannedTLD == \E i \in 1..Len(bannedTLDs) : bannedTLDs[i] = LastLabel(url.hostname)
    IN (url.ok /\ (hasBannedTerm \/ onBannedTLD)) =>
          /\ started \subseteq {"bannedWords"}
          /\ redirectResult = Pending
          /\ ~results.hasRecency
          /\ pc = "done" =>
                /\ response = OkReport
                /\ results.status = "fail"
                /\ Len(results.checks) = 1
                /\ results.checks[1].name = "bannedWords"
                /\ results.checks[1].result.status = "fail"

\* A URL on a banned TLD with no banned term has been reported.
C1_Witness ==
    /\ pc = "done"
    /\ body = UrlBannedTLD
    /\ ~FirstBannedMatch(ParseURL(body).hostname, toLowerCase(ParseURL(body).pathname),
                         toLowerCase(body)).found
    /\ results.status = "fail"

\* The statuses of the check results a report records: the checks mapping and the
\* recency result.
RecordedStatuses(r) ==
    {r.checks[i].result.status : i \in 1..Len(r.checks)}
        \cup (IF r.hasRecency THEN {r.contentRecency.status} ELSE {})

\* fail before error before review before pass, over a set of statuses.
Precedence(statuses) ==
    IF "fail" \in statuses THEN "fail"
    ELSE IF "error" \in statuses THEN "error"
    ELSE IF "review" \in statuses THEN "review"
    ELSE "pass"

\* C2: at aggregation the overall status is 'fail' if any recorded check result is
\* 'fail', else 'error' if any is 'error', else 'review' if any is 'review', else
\* 'pass', whatever the order in which the checks completed.
C2_AggregationPrecedence ==
    (pc = "done" /\ verdict.computed) => results.status = Precedence(RecordedStatuses(results))

C4_RedirectPhase ==
    /\ redirectResult.status = "fail" =>
          /\ pc = "done"
          /\ response = OkReport
          /\ results.status = "fail"
          /\ HasKey(results.checks, "redirect")
          /\ Lookup(results.checks, "redirect") = redirectResult
          /\ started = {"bannedWords", "redirect"}
          /\ ~results.hasRecency
    /\ redirectResult.status \in {"review", "error"} =>
          /\ HasKey(results.checks, "redirect")
          /\ Lookup(results.checks, "redirect") = redirectResult
          /\ "contentRecency" \in started
          /\ pc # "recency" => (results.hasRecency /\ ConcurrentNames \subseteq started)
          /\ pc = "done" => verdict.computed

\* An external redirect has ended the audit.
C4_Witness ==
    /\ pc = "done"
    /\ redirectResult = Result("fail", "External redirect")
    /\ Len(results.checks) = 1

\* C5, at the steps: a race that has settled keeps its value; a race settled by its
\* timer settles to the timed-out error, at or after its deadline, and every other
\* race is left as it was.
C5_Step ==
    \A n \in ConcurrentNames :
        /\ (pc # "recency" /\ race[n] # Pending) => race'[n] = race[n]
        /\ (race[n] = Pending /\ race'[n] # Pending /\ runner'[n] = "running") =>
              /\ race'[n] = Result("error", "Check timed out")
              /\ now >= phaseStart + TimeoutOf(n)
              /\ \A m \in ConcurrentNames \ {n} : race'[m] = race[m]

\* C5, at aggregation: each of the four checks has settled to its own result or to its
\* timeout, that is what is recorded, and a check still running is recorded as timed out.
C5_Recorded ==
    verdict.computed =>
        \A n \in ConcurrentNames :
            /\ race[n] # Pending
            /\ race[n] \in RunnerOutcomes(n, body) \cup {Result("error", "Check timed out")}
            /\ HasKey(verdict.checks, n)
            /\ Lookup(verdict.checks, n) = race[n]
            /\ runner[n] = "running" => race[n] = Result("error", "Check timed out")

\* C5: in the concurrent phase, for every interleaving of completions and expiries, a
\* check that exceeds its deadline is recorded as a timed-out 'error', no sibling's
\* recorded result changes, and the overall status is computed only after all four
\* checks have produced a result or a timeout.
C5_ConcurrentPhase == [][C5_Step]_vars /\ []C5_Recorded

\* A report that records a timeout next to a sibling's own 'fail'.
C5_Witness ==
    /\ pc = "done"
    /\ verdict.computed
    /\ Lookup(results.checks, "images") = Result("error", "Check timed out")
    /\ Lookup(results.checks, "hateSpeech").status = "fail"
    /\ runner["plagiarism"] = "done"
    /\ race["plagiarism"].status = "pass"

\* C6, at aggregation: it happens no later than the longest deadline after the phase
\* started, the checks that answered have their own results recorded and a check that
\* has not answered is recorded as timed out.
C6_WithinDeadline ==
    verdict.computed =>
        /\ now <= phaseStart + LongestDeadline
        /\ \A n \in ConcurrentNames :
              IF runner[n] = "running"
              THEN Lookup(verdict.checks, n) = Result("error", "Check timed out")
              ELSE Lookup(verdict.checks, n).reason # "Check timed out"
                      => Lookup(verdict.checks, n) \in RunnerOutcomes(n, body)

C7_ValidationError ==
    LET url == ParseURL(body)
        absoluteHttp == url.ok /\ url.protocol \in {<<"h", "t", "t", "p">>, <<"h", "t", "t", "p", "s">>}
    IN (body # <<>> /\ ~absoluteHttp /\ pc = "done") =>
          /\ response.code = 400
          /\ started = {}
          /\ ~stored

\* C8: for a well-formed URL the caller always receives a report whose status is one of
\* pass, fail, review, error, whichever checks throw, time out or return errors and
\* whether or not persistence fails.
C8_AlwaysAReport ==
    (pc = "done" /\ ParseURL(body).ok) =>
        /\ response = OkReport
        /\ results.status \in Vocabulary

\* A report after a timeout, a runner that threw and a failure to store.
C8_Witness ==
    /\ pc = "done"
    /\ verdict.computed
    /\ ParseURL(body).ok
    /\ Lookup(results.checks, "ads") = RunnerFailed("ads")
    /\ Lookup(results.checks, "plagiarism") = Result("error", "Check timed out")
    /\ results.contentRecency = RecencyTimedOut
    /\ results.databaseStorage.present
    /\ ~results.databaseStorage.success

\* C9: when generating or applying the persistence commands fails, the report carries
\* databaseStorage.success = false and its overall status and recorded check results
\* are what they were before persistence was attempted.
C9_PersistenceFrame ==
    (pc = "done" /\ verdict.computed) =>
        /\ results.databaseStorage.present
        /\ ~stored => ~results.databaseStorage.success
        /\ ~results.databaseStorage.success =>
              /\ results.status = verdict.status
              /\ results.checks = verdict.checks

\* A report with a 'pass' verdict whose commands were not applied.
C9_Witness ==
    /\ pc = "done"
    /\ verdict.computed
    /\ verdict.status = "pass"
    /\ ~stored
    /\ ~results.databaseStorage.success

\* C10: every check result recorded in a report has a status that is exactly one of
\* 'pass', 'fail', 'review', 'error'.
C10_StatusVocabulary == RecordedStatuses(results) \subseteq Vocabulary

\* C11: the ad decision depends only on the counts: two or more premium networks pass,
\* one network with a tracking pixel or an ad creative passes, one network alone fails
\* (limited premium networks), no network with any ad signal fails (ad activity without
\* premium networks) and nothing detected fails (no ad activity detected).
C11_AdDecision ==
    called = "analyzeAdData" =>
        LET n == input.networks
            active == input.trackingPixels > 0 \/ input.adCreatives > 0
        IN IF n >= 2 \/ (n = 1 /\ active) THEN output.status = "pass"
           ELSE /\ output.status = "fail"
                /\ output.reason = IF n = 1 THEN "Limited premium ad networks"
                                   ELSE IF active \/ input.adElements > 0
                                        THEN "Ad activity without premium networks"
                                   ELSE "No ad activity detected"

FailureCause(dates) ==
    IF \A i \in 1..Len(dates) : Clock - dates[i] > 30 * DayUnits THEN "newest too old"
    ELSE IF \A i \in 1..Len(dates) : Clock - dates[i] < 95 * DayUnits THEN "oldest too young"
    ELSE "none"

\* The site yielded no date at any location checkRecency asked.
NothingFound == \A i \in 1..Len(output.requested) : input.site[output.requested[i]] = <<>>

\* C13 as claimed: the reason of a recency failure identifies its cause: the reason for a
\* newest date older than 30 days differs from the reason for an oldest date younger than
\* 95 days, and both differ from the reason given when no dates were found.
C13_ReasonIdentifiesCause ==
    /\ (called = "evaluateDates" /\ output.status = "fail") =>
          \A other \in DateLists :
              (evaluateDates(other).status = "fail" /\ FailureCause(other) # FailureCause(input))
                  => evaluateDates(other).reason # output.reason
    /\ (called = "checkRecency" /\ input.urlOk /\ NothingFound) =>
          /\ output.status = "fail"
          /\ \A dates \in DateLists : evaluateDates(dates).reason # output.reason

\* C13 as amended: both failures of the freshness rule carry the same reason, and it is
\* their details that identify the cause; the reason given when no dates were found
\* differs from it.
C13_DetailsIdentifyCause ==
    /\ (called = "evaluateDates" /\ output.status = "fail") =>
          \A other \in DateLists :
              (evaluateDates(other).status = "fail" /\ FailureCause(other) # FailureCause(input))
                  => /\ evaluateDates(other).reason = output.reason
                     /\ evaluateDates(other).details # output.details
    /\ (called = "checkRecency" /\ input.urlOk /\ NothingFound) =>
          /\ output.status = "fail"
          /\ \A dates \in DateLists : evaluateDates(dates).reason # output.reason

\* A failure for want of history has been returned, and so has a failure for want of dates.
C13_Witness ==
    \/ /\ called = "evaluateDates"
       /\ output.status = "fail"
       /\ FailureCause(input) = "oldest too young"
       /\ Len(input) = 2
    \/ /\ called = "checkRecency"
       /\ input.urlOk
       /\ NothingFound
       /\ Range(output.requested) = Locations

\* C14: when the dates of the primary site-map locations already satisfy the freshness
\* rule, checkRecency returns 'pass' and has asked no fallback location, not the page
\* and no additional page.
C14_PrimaryEarlyExit ==
    (called = "checkRecency" /\ input.urlOk) =>
        LET primaryDates == input.site[primarySitemapPaths[1]] \o input.site[primarySitemapPaths[2]]
            ages == {Clock - primaryDates[i] : i \in 1..Len(primaryDates)}
            satisfied == (\E a \in ages : a <= 30 * DayUnits) /\ (\E a \in ages : a >= 95 * DayUnits)
        IN satisfied => /\ output.status = "pass"
                        /\ output.requested = primarySitemapPaths

\* The two primary site maps passed only together, on a site whose other locations
\* hold dates too.
C14_Witness ==
    /\ called = "checkRecency"
    /\ input.urlOk
    /\ input.site[primarySitemapPaths[1]] = <<FreshDate>>
    /\ input.site[primarySitemapPaths[2]] = <<OldDate>>
    /\ input.site[MainPage] # <<>>
    /\ output.status = "pass"

\* The words of a text whatever their length, in lower case.
WordsOf(str) == Range(split(toLowerCase(str), 1, <<>>))

\* C15: calculateSimilarity returns the intersection-over-union of the two texts' sets
\* of words longer than 3 characters: exactly 1.0 for identical content, exactly 0.0
\* for disjoint vocabularies, and for every pair of inputs a defined number in [0,1].
C15_SimilarityScore ==
    called = "calculateSimilarity" =>
        LET long1 == {w \in WordsOf(input.str1) : Len(w) > 3}
            long2 == {w \in WordsOf(input.str2) : Len(w) > 3}
        IN /\ ~output.nan
           /\ output.den > 0
           /\ 0 <= output.num /\ output.num <= output.den
           /\ output.num * Cardinality(long1 \cup long2) = output.den * Cardinality(long1 \cap long2)
           /\ input.str1 = input.str2 => output.num = output.den
           /\ WordsOf(input.str1) \cap WordsOf(input.str2) = {} => output.num = 0

\* C16: if the best similarity score found for any checked excerpt is above the fail
\* threshold, the plagiarism check's overall status is 'fail'.  A score of 1.0, that of
\* a page with the excerpt's own words, is above every threshold a score can exceed.
C16_FailAboveThreshold ==
    called = "checkParagraphs" =>
        ((\E i \in 1..Len(output.similarityScores) :
              /\ ~output.similarityScores[i].nan
              /\ output.similarityScores[i].num = output.similarityScores[i].den)
            => output.status = "fail")

\* The content holds a listed phrase, in whatever case.
HoldsListedPhrase(content) ==
    \E p \in 1..Len(problematicPhrases) : indexOf(toLowerCase(content), problematicPhrases[p]) # 0

\* C17: when the quick lexical scan finds any listed phrase in the extracted content,
\* the hate-speech check returns 'fail' at once and no remote classification call is
\* made for that audit.  The scan runs on every content of 10 characters or more.
C17_QuickScanFastPath ==
    (called = "checkContent" /\ Len(input.content) >= 10 /\ HoldsListedPhrase(input.content)) =>
        /\ output.status = "fail"
        /\ output.reason = "Problematic content detected"
        /\ output.calls = 0

\* A phrase written in capitals, late in a long text that was cut at the limit, has
\* been found on a page whose chunk the language service would have answered.
C17_Witness ==
    /\ called = "checkContent"
    /\ input.content = truncateText(HitInLongText, extractLimit)
    /\ Len(input.content) > extractLimit
    /\ input.answers[1].failedAt = 0
    /\ output.status = "fail"
    /\ output.calls = 0

\* The chunks that a call analyses.
ChunksOf(name, arguments) ==
    IF name = "checkContent" THEN splitContent(arguments.content) ELSE arguments.chunks

\* The chunks submitted to the language service, by their place.
Submitted(chunks) == {i \in 1..Len(chunks) : i <= maxHateSpeechApiCalls}

\* An answer that shows hate speech.
Flagged(answer) ==
    \/ answer.sentiment < -7
    \/ \E j \in 1..Len(answer.entities) :
          answer.entities[j].score < -7 /\ answer.entities[j].type \in {"PERSON", "ORGANIZATION", "OTHER"}
    \/ \E j \in 1..Len(answer.categories) :
          \E name \in SensitiveNames : includes(answer.categories[j], name)

\* C18: a classification failure on one content chunk skips only that chunk: the
\* hate-speech result is then computed from the chunks that did succeed, and the check
\* result is 'error' when every submitted chunk failed but not merely because some
\* chunk failed.
C18_ChunkFailureSkipped ==
    (\/ called = "analyzeTextChunks"
     \/ called = "checkContent" /\ Len(input.content) >= 10 /\ ~HoldsListedPhrase(input.content)) =>
        LET succeeded == {i \in Submitted(ChunksOf(called, input)) : input.answers[i].failedAt = 0}
        IN /\ output.totalChunks = Cardinality(succeeded)
           /\ output.status = "error" <=> succeeded = {}
           /\ output.status = "fail" <=> \E i \in succeeded : Flagged(input.answers[i])
           /\ output.status \in {"error", "fail", "pass"}

\* The first of three chunks failed at its classification request, the second was
\* analysed and shows nothing, the third was not submitted.
C18_Witness ==
    /\ called = "analyzeTextChunks"
    /\ Len(input.chunks) = 3
    /\ input.answers[1].failedAt = 3
    /\ input.answers[2].failedAt = 0
    /\ output.status = "pass"
    /\ output.totalChunks = 1
    /\ output.calls = 6

\* C19: when the redirect probe fails at the network level, the redirect check yields
\* an 'error' result, that result is recorded in the report, and the report's overall
\* status is not 'pass'.  For a URL that parses, checkRedirect's catch is reached from
\* the probe alone.
C19_ProbeFailureRecorded ==
    (ParseURL(body).ok /\ redirectResult = RedirectError) =>
        /\ redirectResult.status = "error"
        /\ HasKey(results.checks, "redirect")
        /\ Lookup(results.checks, "redirect") = redirectResult
        /\ pc = "done" =>
              /\ response = OkReport
              /\ results.status \in {"error", "fail"}

\* A report after a failed probe, fresh content and four checks that passed.
C19_Witness ==
    /\ pc = "done"
    /\ verdict.computed
    /\ ParseURL(body).ok
    /\ redirectResult = RedirectError
    /\ results.contentRecency.status = "pass"
    /\ \A n \in ConcurrentNames : Lookup(results.checks, n).status = "pass"
    /\ results.status = "error"

\* A reference with a scheme: letters, then a colon, before any slash.
HasScheme(location) ==
    LET colon == FirstIndexIn(location, {":", "/", "?", "#"}, 1)
    IN colon > 1 /\ colon <= Len(location) /\ location[colon] = ":"
       /\ \A i \in 1..(colon - 1) : IsLetter(location[i])

\* The hostname a Location points to: its own when it is absolute or starts with "//",
\* the original URL's when it is any other relative reference.
Destination(location, urlString) ==
    IF HasScheme(location) THEN ParseURL(location).hostname
    ELSE IF startsWith(location, <<"/", "/">>)
         THEN ParseAuthority(ParseURL(urlString).protocol, SubSeq(location, 3, Len(location))).hostname
    ELSE ParseURL(urlString).hostname

\* C20: for a probe response with status in [300,400): a missing Location header gives
\* 'review'; a Location that - resolved against the original URL when it is relative -
\* points to a different hostname gives 'fail' with the destination in the result; a
\* Location on the same hostname gives no finding (pass).
C20_RedirectClassification ==
    (called = "checkRedirect" /\ input.status >= 300 /\ input.status < 400) =>
        /\ input.location = <<>> => output.status = "review"
        /\ (input.location # <<>> /\ Destination(input.location, input.urlString) # <<>>) =>
              IF Destination(input.location, input.urlString) # ParseURL(input.urlString).hostname
              THEN /\ output.status = "fail"
                   /\ output.redirectHostname = Destination(input.location, input.urlString)
              ELSE output.status = "null"

\* The code the table gives a reason: that of the key equal to it, else that of the
\* first key, in declaration order, that occurs in it, else 298.
TableCode(reason) ==
    LET equal == {i \in 1..Len(rejectionMap) : rejectionMap[i].key = reason}
        within == {i \in 1..Len(rejectionMap) : includes(reason, rejectionMap[i].key)}
    IN IF equal # {} THEN rejectionMap[CHOOSE i \in equal : TRUE].code
       ELSE IF within # {} THEN rejectionMap[CHOOSE i \in within : \A j \in within : i <= j].code
       ELSE "298"

\* C21 as stated: getRejectionCode returns the code of the key equal to the reason if
\* one exists; otherwise the code of the first key, in the table's declaration order,
\* that occurs as a substring of the reason; otherwise the fallback code 298.
C21_RejectionCode ==
    called = "getRejectionCode" => output = TableCode(input)

\* C21, amended: for a reason that is not empty getRejectionCode returns the code of the
\* key equal to it, else the code of the first key in declaration order that occurs
\* in it, else 298; for the empty reason of an audit that passed it returns the empty
\* code.
C21_RejectionCodeOfFailure ==
    called = "getRejectionCode" =>
        IF input = <<>> THEN output = "" ELSE output = TableCode(input)

\* A reason that holds two keys has got the code of the key declared first, though
\* the other key comes first in the reason.
C21_Witness ==
    /\ called = "getRejectionCode"
    /\ input = ReasonTwoKeys
    /\ output = "284"

\* C22: every failure reason that the policy filter, the redirect inspector, the
\* hate-speech screener (fast path or classifier path) or the image check can emit maps
\* to that family's rejection code - banned term/TLD to 261, external redirect to 277,
\* hate speech and inappropriate images both to 272 - and never to the fallback code 298.
C22_FamilyCodes ==
    called = "getRejectionCode" =>
        /\ input \in {Spell(r) : r \in PolicyFailures} => output = "261"
        /\ input \in {Spell(r) : r \in RedirectFailures} => output = "277"
        /\ input \in {Spell(r) : r \in HateSpeechFailures \cup ImageFailures} => output = "272"

\* C23: the site-approval update emitted for an audit moves the site to the approved
\* state (92) when the audit passed and to the denied state (2) carrying the rejection
\* code when it failed, and in both cases applies only to a site currently in the
\* pending state (32).
C23_ApprovalUpdate ==
    called \in {"generateSQLForAudit", "generateAuditResultSQL"} =>
        /\ output.update.where_state = 32
        /\ input.status = "pass" => output.update.approval_state = 92
        /\ input.status = "fail" =>
              /\ output.update.approval_state = 2
              /\ output.update.reject_reason_code # ""
              /\ output.update.reject_reason_code = output.rejectionCode

\* C24: every audit report returned to the caller - including reports produced by a
\* policy or redirect short-circuit - has had its persistence commands (audit-result
\* insert, per-check results, site-approval update) emitted before it is returned.  A
\* report for which the commands were generated carries the databaseStorage field.
C24_PersistedBeforeReturn ==
    (pc = "done" /\ response = OkReport) => results.databaseStorage.present

\* C25: when several audits run concurrently, each audit's report is written by that
\* audit only - a returned report is the one the audit produces alone from the answers
\* its own collaborators gave - and the rejection-code table and the banned-term lists
\* are never written after they were loaded.
C25_ReportIsOwn ==
    \A a \in AuditIds :
        audits[a].pc = "done" => audits[a].results = ReportAlone(audits[a].url, audits[a].heard)

C25_TablesReadOnly == tables = LoadedTables

C25_AuditsIsolated == []C25_ReportIsOwn /\ []C25_TablesReadOnly

\* Two audits of the same URL have returned different reports, one stored and one not.
C25_Witness ==
    /\ audits # <<>>
    /\ audits[1].pc = "done" /\ audits[2].pc = "done"
    /\ audits[1].url = audits[2].url
    /\ audits[1].results.status = "pass" /\ audits[2].results.status = "fail"
    /\ audits[1].results.databaseStorage.success /\ ~audits[2].results.databaseStorage.success

\* Where an event stands in a log (0: it is not there).
Position(log, event) ==
    IF \E i \in 1..Len(log) : log[i] = event
    THEN CHOOSE i \in 1..Len(log) : log[i] = event
    ELSE 0

\* A transaction was run with a callback function on a client it acquired.
CallbackRan == called = "transaction" /\ Position(output.log, "callback") > 0

\* C26: db.transaction issues BEGIN on the acquired client before it runs the callback;
\* when the callback resolves it issues COMMIT and returns the callback's value; when
\* the callback rejects it issues ROLLBACK and throws the callback's own error again;
\* on both paths the client is released.
C26_TransactionProtocol ==
    CallbackRan =>
        /\ Position(output.log, "BEGIN") = 1 /\ Position(output.log, "callback") = 2
        /\ input.work.resolves =>
              /\ Position(output.log, "COMMIT") = 3
              /\ output.how = "returned" /\ output.value = input.work.value
        /\ ~input.work.resolves =>
              /\ Position(output.log, "ROLLBACK") = 3
              /\ output.how = "thrown" /\ output.value = input.work.error
        /\ output.log[Len(output.log)] = "release"

\* C27: auditUrl sends exactly one response per request: 400 with the invalid-URL error,
\* and no browser launched, when the URL does not parse; 500 when the navigation or any
\* other audit step throws; 200 with the audit results otherwise, also when storing the
\* results failed.
C27_OneResponse ==
    called = "auditUrl" =>
        /\ Len(output.responses) = 1
        /\ IF ~ParseURL(input.urlString).ok
           THEN /\ output.responses[1] = Sent(400, "Invalid URL provided")
                /\ output.steps = <<>>
           ELSE IF input.failsAt > 0
           THEN output.responses[1].code = 500
           ELSE output.responses[1] = Sent(200, "audit results")

\* Every step succeeded, storing the result failed, and the response is the 200.
C27_Witness ==
    /\ called = "auditUrl"
    /\ ParseURL(input.urlString).ok /\ input.failsAt = 0 /\ ~input.storeSettled
    /\ "storeAuditResult" = output.steps[Len(output.steps)]
    /\ output.responses[1].code = 200

\* The entries of the checks mapping in execution order.
ExecutionOrder ==
    <<"bannedWords", "redirect", "contentRecency", "hateSpeech", "plagiarism", "images", "ads">>

Rank(name) == CHOOSE i \in 1..Len(ExecutionOrder) : ExecutionOrder[i] = name

\* The entries of a checks mapping are names of ExecutionOrder, in that order.
InExecutionOrder(checks) ==
    /\ \A i \in 1..Len(checks) : \E j \in 1..Len(ExecutionOrder) : ExecutionOrder[j] = checks[i].name
    /\ \A i \in 1..Len(checks), j \in 1..Len(checks) :
          i < j => Rank(checks[i].name) < Rank(checks[j].name)

\* C28: in every report that went through the concurrent phase, the checks mapping holds
\* the recency result alongside the others, and its entries are in execution order
\* (policy, redirect, recency, hate speech, plagiarism, images, ads) whichever of the
\* four concurrent checks finished first.
C28_ChecksInExecutionOrder ==
    (pc = "done" /\ verdict.computed) =>
        /\ HasKey(results.checks, "contentRecency")
        /\ Lookup(results.checks, "contentRecency") = results.contentRecency
        /\ InExecutionOrder(results.checks)

\* Every request of a group has settled.
AllAnswered(paths) == \A i \in 1..Len(paths) : fetches.asked[paths[i]] = "settled"

\* The dates collected once the page and the first n additional pages have answered.
Gathered(n) ==
    Collect(fetches.site, primarySitemapPaths \o FallbackPaths \o <<MainPage>> \o ProbedPaths,
            Len(primarySitemapPaths) + Len(FallbackPaths) + 1 + n, <<>>)

\* The page (n = 0) or the n-th additional page added dates that make the rule pass.
MadeItPass(n) ==
    /\ fetches.site[(<<MainPage>> \o ProbedPaths)[n + 1]] # <<>>
    /\ Passes(Gathered(n))

\* C29: within the recency check no fallback site-map request is issued before every
\* primary site-map request has settled, the page is not fetched before every fallback
\* request has settled, and the additional pages are fetched only after the page, one
\* at a time in list order, none after the first addition that makes the rule pass.
C29_RequestOrder ==
    /\ (\E i \in 1..Len(FallbackPaths) : fetches.asked[FallbackPaths[i]] # "idle")
          => AllAnswered(primarySitemapPaths)
    /\ fetches.asked[MainPage] # "idle" => AllAnswered(FallbackPaths)
    /\ \A i \in 1..Len(ProbedPaths) :
          fetches.asked[ProbedPaths[i]] # "idle" =>
              /\ fetches.asked[MainPage] = "settled"
              /\ \A j \in 1..(i - 1) : fetches.asked[ProbedPaths[j]] = "settled"
              /\ \A n \in 0..(i - 1) : ~MadeItPass(n)

\* The call returned 'pass' on the dates of the first additional page, after every site
\* map and the page had answered, and the second additional page was never requested.
C29_Witness ==
    /\ fetches.position = "returned" /\ fetches.result.status = "pass"
    /\ AllAnswered(primarySitemapPaths \o FallbackPaths \o <<MainPage, ProbedPaths[1]>>)
    /\ MadeItPass(1)
    /\ fetches.asked[ProbedPaths[2]] = "idle"

\* Phase 2 is left in this step.
LeavesRecency == pc = "recency" /\ pc' # "recency"

\* C30: whatever the recency check does - it returns a result, it fails, or its 30 second
\* timer fires first - phase 2 ends with a recency result recorded (of status 'error'
\* when the timer fired or the check failed) and with the concurrent phase entered, all
\* four of its checks launched.
C30_RecencyNeverAborts ==
    [][LeavesRecency =>
          /\ pc' = "concurrent"
          /\ results'.hasRecency /\ results'.contentRecency.status \in Vocabulary
          /\ runner'["contentRecency"] = "running" => results'.contentRecency = RecencyTimedOut
          /\ \A n \in ConcurrentNames : n \in started' /\ runner'[n] = "running" /\ timers'[n] >= 0
      ]_vars

\* The timer of the recency check fired first and the four checks are running.
C30_Witness ==
    /\ pc = "concurrent"
    /\ results.contentRecency = RecencyTimedOut /\ runner["contentRecency"] = "running"
    /\ \A n \in ConcurrentNames : runner[n] = "running"

\* The slot of a concurrent check in the report is not rewritten by this step.
SlotKept(name) ==
    HasKey(results.checks, name) =>
        HasKey(results'.checks, name) /\ Lookup(results'.checks, name) = Lookup(results.checks, name)

\* C31: a concurrent check that completes after its deadline produced the timeout result
\* has its late value discarded: a settled race keeps what it settled to, the check's
\* slot in the report is written once (with the timeout 'error' result when the deadline
\* came first), and the report returned to the caller is never changed afterwards.
C31_LateValueDiscarded ==
    [][/\ \A n \in ConcurrentNames :
             /\ race[n] # Pending => race'[n] = race[n]
             /\ SlotKept(n)
             /\ (HasKey(results'.checks, n) /\ race'[n] = TimedOut(n))
                    => Lookup(results'.checks, n) = TimedOut(n)
       /\ pc = "done" => results' = results
      ]_vars

\* A report was returned with the timeout result of a check whose runner completed
\* after the deadline.
C31_Witness ==
    /\ pc = "done" /\ verdict.computed
    /\ \E n \in ConcurrentNames :
          /\ runner[n] = "done" /\ race[n] = TimedOut(n)
          /\ Lookup(results.checks, n) = TimedOut(n)

\* C32: the redirect probe is bounded: when the probed server never responds, the
\* redirect phase still ends (with an 'error' result, once the probe's timeout expires),
\* so that the audit eventually returns a report.
C32_ProbeBounded == (pc = "redirect") ~> (pc # "redirect")

\* The page could not be fetched, or it holds images and every classification call failed.
ImageCollaboratorFailed(page) ==
    \/ ~page.fetched
    \/ Len(page.images) > 0 /\ \A i \in 1..Len(page.images) : page.images[i] = "failed"

\* C33: when a concurrent check cannot complete because its remote collaborator fails -
\* the page fetch of the image extraction fails, every image classification call fails,
\* or the similarity search call fails - the check's result is 'error', never 'pass'.
C33_CollaboratorFailureIsError ==
    /\ (called = "analyzeUrl" /\ ImageCollaboratorFailed(input)) => output.status = "error"
    /\ (called = "searchSimilarContent" /\ input.answer.failed) => output.status = "error"

\* The hostname, the path and the full URL as checkBannedWords scans them.
Targets(urlString) ==
    <<ParseURL(urlString).hostname, toLowerCase(ParseURL(urlString).pathname), toLowerCase(urlString)>>

\* The position of a category in the declaration order (0: not a category of terms).
CategoryIndex(category) ==
    IF \E c \in 1..Len(bannedWords) : bannedWords[c].category = category
    THEN CHOOSE c \in 1..Len(bannedWords) : bannedWords[c].category = category
    ELSE 0

\* A term of category c occurs in target k of the URL.
OccursIn(urlString, c, k) ==
    \E w \in 1..Len(bannedWords[c].wordList) : includes(Targets(urlString)[k], bannedWords[c].wordList[w])

\* The banned-TLD test comes first, and the reported category is the first category
\* in declaration order with a term anywhere in the URL.
CategoryOrder ==
    /\ (\E i \in 1..Len(bannedTLDs) : bannedTLDs[i] = LastLabel(ParseURL(input).hostname))
          => output.category = "bannedTLD"
    /\ output.category # "bannedTLD" =>
          /\ CategoryIndex(output.category) > 0
          /\ \A d \in 1..(CategoryIndex(output.category) - 1), k \in 1..3 : ~OccursIn(input, d, k)

\* A URL that parses was scanned and failed.
ScanFailed == called = "checkBannedWords" /\ output.status = "fail"

\* C34 as stated: the banned-TLD test runs before any term category, the categories are
\* scanned in declaration order, and within a category a hostname match on any of its
\* terms is reported in preference to a path match, and a path match in preference to
\* a full-URL match.
C34_MatchPreference ==
    ScanFailed =>
        /\ CategoryOrder
        /\ output.category # "bannedTLD" =>
              \A k \in 1..3 : OccursIn(input, CategoryIndex(output.category), k) => output.place <= k

\* C34 amended: the banned-TLD test runs before any term category, the categories are
\* scanned in declaration order, within a category the terms are scanned in list order,
\* and for the first term that occurs anywhere in the URL a hostname match is reported
\* in preference to a path match, and a path match in preference to a full-URL match.
C34_MatchPreferencePerTerm ==
    ScanFailed =>
        /\ CategoryOrder
        /\ output.category # "bannedTLD" =>
              LET words == bannedWords[CategoryIndex(output.category)].wordList
                  w == CHOOSE i \in 1..Len(words) : words[i] = output.word
              IN /\ \E i \in 1..Len(words) : words[i] = output.word
                 /\ includes(Targets(input)[output.place], output.word)
                 /\ \A k \in 1..(output.place - 1) : ~includes(Targets(input)[k], output.word)
                 /\ \A v \in 1..(w - 1), k \in 1..3 : ~includes(Targets(input)[k], words[v])

\* A path match on an earlier term was reported for a URL whose hostname holds a later
\* term of the same category.
C34_Witness ==
    /\ ScanFailed
    /\ output.category = "adult" /\ output.place = 2
    /\ OccursIn(input, CategoryIndex(output.category), 1)

\* The dates of every location of a site.
EveryDate(site) ==
    Collect(site, primarySitemapPaths \o FallbackPaths \o <<MainPage>> \o AdditionalPaths,
            Len(primarySitemapPaths) + Len(FallbackPaths) + 1 + Len(AdditionalPaths), <<>>)

\* checkRecency returned before it had asked every location.
ExitedEarly ==
    /\ called = "checkRecency" /\ input.urlOk
    /\ Len(output.requested) < Len(primarySitemapPaths) + Len(FallbackPaths) + 1 + Len(AdditionalPaths)

\* C35: the freshness rule is monotone in the evidence - dates that pass still pass
\* when a date is added - so that the status returned at an early exit of checkRecency
\* is the status that evaluating the dates of all sources gives.
C35_RuleMonotone ==
    /\ (called = "evaluateDates twice" /\ output.alone = "pass") => output.together = "pass"
    /\ ExitedEarly => output.status = evaluateDates(EveryDate(input.site)).status

\* checkRecency left after the primary site maps although the fallback site map and the
\* page hold dates that do not pass on their own.
C35_Witness ==
    /\ ExitedEarly
    /\ output.requested = primarySitemapPaths
    /\ input.site[FallbackPaths[1]] = <<OldDate>> /\ input.site[MainPage] = <<OldDate>>
    /\ output.status = "pass"

\* The locations whose dates belong to the pool: those that have answered, but for a
\* primary site map that passed on its own.
Pooled == {l \in FetchedLocations : fetches.asked[l] = "settled" /\ ~fetches.earlyExit[l]}

\* The dates of every location of the fetched site.
EveryFetchedDate ==
    Collect(fetches.site, primarySitemapPaths \o FallbackPaths \o <<MainPage>> \o ProbedPaths,
            Len(primarySitemapPaths) + Len(FallbackPaths) + 1 + Len(ProbedPaths), <<>>)

C37_StoredStatusAgrees ==
    (pc = "done" /\ results.databaseStorage.present /\ results.databaseStorage.success) =>
        (results.databaseStorage.status = "passed" <=> results.status = "pass")

\* C38: the site-approval update denies a site (state 2) only when the overall status
\* of the report is 'fail'; a report whose overall status is 'review' or 'error' never
\* denies the site.
C38_DeniesOnlyFailures ==
    called = "generateSQLForAudit" =>
        /\ output.update.approval_state = 2 => input.status = "fail"
        /\ input.status \in {"review", "error"} => output.update.approval_state # 2

\* How often an event occurs among the events of a call.
Times(events, event) == Cardinality({i \in 1..Len(events) : events[i] = event})

\* The browser of a call was launched at most once, closed as often as it was launched,
\* and closed after its launch and before the call ended.
ClosedOnce(events) ==
    /\ Times(events, "launch") <= 1
    /\ Times(events, "close") = Times(events, "launch")
    /\ \A i \in 1..Len(events) :
          events[i] = "close" => /\ \E j \in 1..(i - 1) : events[j] = "launch"
                                 /\ i < Len(events)

C40_TransactionInitialisesPool ==
    (called = "database" /\ input.operations[1] = "transaction") =>
        /\ output[1].pool
        /\ output[1].settled.value # PoolUndefined
        /\ output[1].settled = transaction(input.work, DatabaseUp)
====
